---- MODULE Spec2Model ----
(***************************************************************************)
(* Model of the XCCDF policy core, src/XCCDF_POLICY/xccdf_policy.c:        *)
(* the result algebra (_resolve_operation, _resolve_negate), the           *)
(* construction of a policy from a profile (xccdf_policy_new,              *)
(* xccdf_policy_resolve_item) and the evaluation of a policy               *)
(* (xccdf_policy_evaluate, _xccdf_policy_rule_evaluate,                    *)
(* xccdf_policy_check_evaluate) with its engine and reporting callbacks.   *)
(***************************************************************************)
EXTENDS Integers, Sequences, FiniteSets, TLC

VARIABLES
    pc,               \* position of the caller / of xccdf_policy_evaluate
    bm_selected,      \* Benchmark: the "selected" attribute of each Group and Rule
    profile_selects,  \* Profile: its list of select elements, in document order
    cpe,              \* CPE sources of the model and what they match
    callbacks,        \* model->callbacks, kept per system URI in registration order
    selects,          \* policy->selects
    ht_selects,       \* policy->ht_selects: item id -> entry of selects (0: none)
    sel_it,           \* xccdf_policy_evaluate: position of sel_it in policy->selects
    result,           \* xccdf_policy_evaluate: the TestResult being filled
    policy_results,   \* policy->results
    retval,           \* what xccdf_policy_evaluate returned
    cur,              \* _xccdf_policy_rule_evaluate: its locals
    trace,            \* callbacks invoked and rule results added, in order
    op                \* operands and value of one _resolve_operation call

vars == <<pc, bm_selected, profile_selects, cpe, callbacks, selects, ht_selects,
          sel_it, result, policy_results, retval, cur, trace, op>>

(***************************************************************************)
(* Bounds of the model.                                                    *)
(***************************************************************************)
MaxSelects == 2   \* select elements of a Profile (construction)
MaxEngines == 1   \* checking engines registered for one system URI
MaxHooks == 1     \* start hooks, and output hooks, registered
MaxNames == 2     \* definition names a query answers with

NULL == "<null>"

(***************************************************************************)
(* xccdf_test_result_type_t, as the rows of the result tables number it.   *)
(***************************************************************************)
XCCDF_RESULT_PASS == 1
XCCDF_RESULT_FAIL == 2
XCCDF_RESULT_ERROR == 3
XCCDF_RESULT_UNKNOWN == 4
XCCDF_RESULT_NOT_APPLICABLE == 5
XCCDF_RESULT_NOT_CHECKED == 6
XCCDF_RESULT_NOT_SELECTED == 7
XCCDF_RESULT_INFORMATIONAL == 8

ResultKinds == XCCDF_RESULT_PASS .. XCCDF_RESULT_INFORMATIONAL

XCCDF_OPERATOR_AND == "AND"
XCCDF_OPERATOR_OR == "OR"

(***************************************************************************)
(* The two tables of _resolve_operation, row and column 0 included.        *)
(***************************************************************************)
RESULT_TABLE_AND ==
    << <<0, 0, 0, 0, 0, 0, 0, 0, 0>>,
       <<0, 1, 2, 3, 4, 1, 1, 1, 1>>,
       <<0, 2, 2, 2, 2, 2, 2, 2, 2>>,
       <<0, 4, 2, 4, 4, 4, 4, 4, 4>>,
       <<0, 3, 2, 3, 4, 3, 3, 3, 3>>,
       <<0, 1, 2, 3, 4, 5, 5, 5, 5>>,
       <<0, 1, 2, 3, 4, 5, 6, 6, 6>>,
       <<0, 1, 2, 3, 4, 5, 6, 7, 7>>,
       <<0, 1, 2, 3, 4, 5, 6, 7, 8>> >>

RESULT_TABLE_OR ==
    << <<0, 0, 0, 0, 0, 0, 0, 0, 0>>,
       <<0, 1, 1, 1, 1, 1, 1, 1, 1>>,
       <<0, 1, 2, 3, 4, 2, 2, 2, 2>>,
       <<0, 1, 4, 4, 4, 4, 4, 4, 4>>,
       <<0, 1, 3, 3, 4, 3, 3, 3, 3>>,
       <<0, 1, 2, 3, 4, 5, 5, 5, 5>>,
       <<0, 1, 2, 3, 4, 5, 6, 6, 6>>,
       <<0, 1, 2, 3, 4, 5, 6, 7, 7>>,
       <<0, 1, 2, 3, 4, 5, 6, 7, 8>> >>

\* _resolve_operation(A, B, oper): 0 for an operand outside Pass..Informational
\* or an unsupported operator, else the table's entry.
_resolve_operation(A, B, oper) ==
    IF A = 0 \/ B = 0 \/ A > XCCDF_RESULT_INFORMATIONAL \/ B > XCCDF_RESULT_INFORMATIONAL
    THEN 0
    ELSE CASE oper = XCCDF_OPERATOR_AND -> RESULT_TABLE_AND[A + 1][B + 1]
           [] oper = XCCDF_OPERATOR_OR -> RESULT_TABLE_OR[A + 1][B + 1]
           [] OTHER -> 0

\* _resolve_negate(value, check): Pass and Fail swapped when the check negates.
\* A negation that exchanges Error and Unknown as well as Pass and Fail.
_resolve_negate_Mutant(value, check) ==
    IF check.negate
    THEN IF value \in {XCCDF_RESULT_PASS, XCCDF_RESULT_ERROR} THEN value + 1
         ELSE IF value \in {XCCDF_RESULT_FAIL, XCCDF_RESULT_UNKNOWN} THEN value - 1
         ELSE value
    ELSE value

_resolve_negate(value, check) ==
    IF check.negate
    THEN IF value = XCCDF_RESULT_PASS THEN XCCDF_RESULT_FAIL
         ELSE IF value = XCCDF_RESULT_FAIL THEN XCCDF_RESULT_PASS
         ELSE value
    ELSE value

(***************************************************************************)
(* The Benchmark: Groups g1 and g2 (g2 inside g1), Rules r1 (in g1),       *)
(* r2 (in g2) and r3 (at the root), and Value v1 (in g1).  Its document    *)
(* order of Rules is r1, r2, r3.                                           *)
(***************************************************************************)
Groups == {"g1", "g2"}
Rules == {"r1", "r2", "r3"}
Values == {"v1", "v2"}
Items == Groups \cup Rules \cup Values

\* xccdf_benchmark_get_content(benchmark)
BenchmarkContent == <<"g1", "r3">>

\* xccdf_group_get_content(group)
GroupContent(g) ==
    CASE g = "g1" -> <<"r1", "g2", "v1">>
      [] g = "g2" -> <<"r2">>
      [] OTHER -> <<>>

\* The Group that holds an item; NULL for an item of the Benchmark's own
\* content.
ItemParent(item) ==
    CASE item \in {"r1", "g2", "v1"} -> "g1"
      [] item = "r2" -> "g2"
      [] OTHER -> NULL

\* The Rules in Benchmark pre-order.
RulesPreOrder == <<"r1", "r2", "r3">>

\* xccdf_item_get_type(xccdf_benchmark_get_item(benchmark, id)); NULL when the
\* Benchmark holds no item of that id.
ItemType(id) ==
    CASE id \in Rules -> "XCCDF_RULE"
      [] id \in Groups -> "XCCDF_GROUP"
      [] id \in Values -> "XCCDF_VALUE"
      [] OTHER -> NULL

(***************************************************************************)
(* Policy construction: xccdf_policy_new and xccdf_policy_resolve_item.    *)
(***************************************************************************)
\* A select: the item it names and its selected flag.
Select(item, selected) == [item |-> item, selected |-> selected]

\* The hash table before xccdf_policy_new builds it (policy->ht_selects = NULL).
NoTable == [built |-> FALSE, index |-> <<>>]

\* Position of the first select of the list sels that names item_id, 0 if none.
FirstSelect(sels, item_id) ==
    IF \E i \in DOMAIN sels : sels[i].item = item_id
    THEN CHOOSE i \in DOMAIN sels :
             /\ sels[i].item = item_id
             /\ \A j \in DOMAIN sels : sels[j].item = item_id => i <= j
    ELSE 0

\* xccdf_policy_has_select(policy, item_id)
xccdf_policy_has_select(sels, item_id) ==
    \E i \in DOMAIN sels : sels[i].item = item_id

\* xccdf_policy_get_select_by_id(policy, item_id): the position in
\* policy->selects of the select found (0 for NULL): the hash table's entry when
\* the table is built and holds the key, else the first match of a linear scan.
xccdf_policy_get_select_by_id(sels, ht, item_id) ==
    IF ht.built /\ item_id \in DOMAIN ht.index
    THEN ht.index[item_id]
    ELSE FirstSelect(sels, item_id)

\* XCCDF_RULE case of xccdf_policy_resolve_item with the rule's select defined
\* wrongly from the rule's own default even when the policy holds a select.
resolve_rule_Mutant(sels, item, selected) ==
    IF ~xccdf_policy_has_select(sels, item)
    THEN Append(sels, Select(item, selected /\ bm_selected[item]))
    ELSE LET i == xccdf_policy_get_select_by_id(sels, NoTable, item)
         IN [sels EXCEPT ![i].selected = selected /\ bm_selected[item]]

\* XCCDF_RULE case of xccdf_policy_resolve_item: a new select is appended
\* when the policy has none for the rule, else the one found is updated.
resolve_rule(sels, item, selected) ==
    IF ~xccdf_policy_has_select(sels, item)
    THEN Append(sels, Select(item, selected /\ bm_selected[item]))
    ELSE LET i == xccdf_policy_get_select_by_id(sels, NoTable, item)
         IN [sels EXCEPT ![i].selected = selected /\ @]

\* The group's selection decided without looking at the inherited flag.
resolve_group_selected_Mutant(sels, item, selected) ==
    IF xccdf_policy_has_select(sels, item)
    THEN sels[xccdf_policy_get_select_by_id(sels, NoTable, item)].selected
    ELSE bm_selected[item]

\* XCCDF_GROUP case of xccdf_policy_resolve_item: the flag handed to the
\* group's children.
resolve_group_selected(sels, item, selected) ==
    IF selected
    THEN IF xccdf_policy_has_select(sels, item)
         THEN sels[xccdf_policy_get_select_by_id(sels, NoTable, item)].selected
         ELSE bm_selected[item]
    ELSE selected

RECURSIVE xccdf_policy_resolve_item(_, _, _)
RECURSIVE resolve_content(_, _, _, _)

\* xccdf_policy_resolve_item(policy, item, selected): policy->selects after it.
xccdf_policy_resolve_item(sels, item, selected) ==
    CASE ItemType(item) = "XCCDF_RULE" -> resolve_rule(sels, item, selected)
      [] ItemType(item) = "XCCDF_GROUP" ->
            resolve_content(sels, GroupContent(item), 1,
                            resolve_group_selected(sels, item, selected))
      [] OTHER -> sels

\* The loop over a content list calling xccdf_policy_resolve_item on each child.
resolve_content(sels, content, i, selected) ==
    IF i > Len(content)
    THEN sels
    ELSE resolve_content(xccdf_policy_resolve_item(sels, content[i], selected),
                         content, i + 1, selected)

RECURSIVE build_ht_selects(_, _, _)

\* A table that keeps nothing it is given.
oscap_htable_add_Dropped(index, key, value) == index

\* oscap_htable_add: a key the table already holds is left as it is.
oscap_htable_add(index, key, value) ==
    IF key \in DOMAIN index THEN index ELSE (key :> value) @@ index

\* The loop of xccdf_policy_new that fills policy->ht_selects from the selects.
build_ht_selects(sels, i, index) ==
    IF i > Len(sels)
    THEN index
    ELSE build_ht_selects(sels, i + 1, oscap_htable_add(index, sels[i].item, i))

\* policy->selects at the end of xccdf_policy_new: clones of the profile's
\* selects, then the Benchmark's content resolved with selected = true.
policy_new_selects(psel) ==
    resolve_content(psel, BenchmarkContent, 1, TRUE)

\* xccdf_policy_new(model, profile)
xccdf_policy_new ==
    /\ pc = "new"
    /\ selects' = policy_new_selects(profile_selects)
    /\ ht_selects' = [built |-> TRUE, index |-> build_ht_selects(selects', 1, <<>>)]
    /\ pc' = "ready"
    /\ UNCHANGED <<bm_selected, profile_selects, cpe, callbacks, sel_it, result,
                   policy_results, retval, cur, trace, op>>

\* _xccdf_policy_is_rule_selected(policy, rule)
_xccdf_policy_is_rule_selected(rule) ==
    selects[xccdf_policy_get_select_by_id(selects, ht_selects, rule)].selected

(***************************************************************************)
(* The checks of the Benchmark.  r1 owns one simple check with two         *)
(* content-refs, r2 one simple multi-check whose content-ref has no name,  *)
(* r3 a negated complex check (AND of two simple checks) beside a simple   *)
(* check.  Every check names the system "oval".                            *)
(***************************************************************************)
NoCheck == <<>>

ContentRef(href, name) == [href |-> href, name |-> name]

SimpleCheck(system, selector, negate, multicheck, refs, exports) ==
    [complex |-> FALSE, oper |-> XCCDF_OPERATOR_AND, negate |-> negate,
     multicheck |-> multicheck, system |-> system, selector |-> selector,
     content_refs |-> refs, children |-> <<>>, exports |-> exports]

ComplexCheck(oper, negate, children) ==
    [complex |-> TRUE, oper |-> oper, negate |-> negate, multicheck |-> FALSE,
     system |-> NULL, selector |-> NULL, content_refs |-> <<>>,
     children |-> children, exports |-> <<>>]

\* xccdf_rule_get_checks(rule)
RuleChecks(rule) ==
    CASE rule = "r1" ->
            << SimpleCheck("oval", NULL, FALSE, FALSE,
                           <<ContentRef("a.xml", "d1"), ContentRef("b.xml", "d2")>>,
                           <<[value |-> "v1", name |-> "var1"]>>) >>
      [] rule = "r2" ->
            << SimpleCheck("oval", NULL, FALSE, TRUE,
                           <<ContentRef("x.xml", NULL)>>, <<>>) >>
      [] rule = "r3" ->
            << SimpleCheck("oval", NULL, FALSE, FALSE,
                           <<ContentRef("a.xml", "d1")>>, <<>>) >>
      [] OTHER -> <<>>

\* xccdf_rule_get_complex_checks(rule)
RuleComplexChecks(rule) ==
    CASE rule = "r3" ->
            << ComplexCheck(XCCDF_OPERATOR_AND, TRUE,
                   << SimpleCheck("oval", NULL, FALSE, FALSE,
                                  <<ContentRef("c.xml", "d3")>>, <<>>),
                      SimpleCheck("oval", NULL, TRUE, FALSE,
                                  <<ContentRef("c.xml", "d4")>>, <<>>) >>) >>
      [] OTHER -> <<>>

\* The Profile's refine-rules, refine-values and setvalues: it carries none.
ProfileRefineRules == <<>>
ProfileRefineValues == <<>>
ProfileSetvalues == <<>>

\* The instances of a Value of the Benchmark: selector and value.
ValueInstances(value) ==
    CASE value = "v1" ->
            <<[selector |-> NULL, value |-> "1"], [selector |-> "s1", value |-> "2"]>>
      [] value = "v2" -> <<[selector |-> "s1", value |-> "5"]>>
      [] OTHER -> <<>>

\* xccdf_item_get_platforms(item)
ItemPlatforms(item) ==
    CASE item = "g2" -> <<"#p1">>
      [] item = "r3" -> <<"cpe:/o:x">>
      [] OTHER -> <<>>

(***************************************************************************)
(* Callbacks: model->callbacks, read only through a filter on the system   *)
(* URI, is kept as one list per system URI in registration order.          *)
(***************************************************************************)
START_URI == "urn:xccdf:system:callback:start"
OUTPUT_URI == "urn:xccdf:system:callback:output"
EngineSystems == {"oval"}
CallbackSystems == EngineSystems \cup {START_URI, OUTPUT_URI}

\* What a hook may return: 0, a value asking to stop, and -1.
HookReturns == {0, 1, -1}

\* What an engine's eval callback may return.
EngineResults == {XCCDF_RESULT_PASS, XCCDF_RESULT_FAIL, XCCDF_RESULT_NOT_CHECKED}

\* The definition names a content may hold, in the content's order.
DefNames == <<"n1", "n2", "n3">>

\* What a query for the names of a href may answer: not supported (NULL), or
\* a list of names.
NoNames == [supported |-> FALSE, names |-> <<>>]
QueryAnswers == {NoNames} \cup {[supported |-> TRUE, names |-> SubSeq(DefNames, 1, k)] :
                                    k \in 0 .. MaxNames}

\* _xccdf_policy_get_callbacks_by_sysname(policy, sysname)
_xccdf_policy_get_callbacks_by_sysname(sysname) ==
    IF sysname \in DOMAIN callbacks THEN callbacks[sysname] ELSE <<>>

\* _xccdf_policy_is_engine_registered(policy, sysname)
_xccdf_policy_is_engine_registered(sysname) ==
    Len(_xccdf_policy_get_callbacks_by_sysname(sysname)) > 0

\* Position of the first non-zero entry of rets, 0 if none.
FirstNonZero(rets) ==
    IF \E i \in DOMAIN rets : rets[i] # 0
    THEN CHOOSE i \in DOMAIN rets : rets[i] # 0 /\ \A j \in 1 .. i - 1 : rets[j] = 0
    ELSE 0

\* xccdf_policy_report_cb calling none of the callbacks registered.
xccdf_policy_report_cb_Silent(sysname, rets) ==
    [retval |-> 0, fired |-> 0]

\* xccdf_policy_report_cb(policy, sysname, rule): the callbacks registered for
\* sysname are called in order, rets[i] being what the i-th returns, up to the
\* first that returns non-zero.  fired: how many were called.
xccdf_policy_report_cb(sysname, rets) ==
    LET k == FirstNonZero(rets)
    IN [retval |-> IF k = 0 THEN 0 ELSE rets[k],
        fired |-> IF k = 0 THEN Len(rets) ELSE k]

\* Position of the first entry of rets other than NotChecked, 0 if none.
FirstChecked(rets) ==
    IF \E i \in DOMAIN rets : rets[i] # XCCDF_RESULT_NOT_CHECKED
    THEN CHOOSE i \in DOMAIN rets :
             /\ rets[i] # XCCDF_RESULT_NOT_CHECKED
             /\ \A j \in 1 .. i - 1 : rets[j] = XCCDF_RESULT_NOT_CHECKED
    ELSE 0

\* A dispatch that calls every engine of sysname and keeps what the last
\* returned.
xccdf_policy_evaluate_cb_LastWins(sysname, rets) ==
    [retval |-> IF rets = <<>> THEN XCCDF_RESULT_NOT_CHECKED ELSE rets[Len(rets)],
     called |-> Len(rets)]

\* xccdf_policy_evaluate_cb(policy, sysname, content, href, ...): the engines of
\* sysname are called in order, rets[i] being what the i-th returns, up to the
\* first that returns something else than NotChecked.
xccdf_policy_evaluate_cb(sysname, rets) ==
    LET k == FirstChecked(rets)
    IN [retval |-> IF k = 0 THEN XCCDF_RESULT_NOT_CHECKED ELSE rets[k],
        called |-> IF k = 0 THEN Len(rets) ELSE k]

\* _xccdf_policy_get_namesfor_href(policy, sysname, href): the engines of sysname
\* that have a query function are asked in order, answers[i] being what the
\* i-th answers, up to the first answer that is not NULL.
_xccdf_policy_get_namesfor_href(sysname, answers) ==
    LET cbs == _xccdf_policy_get_callbacks_by_sysname(sysname)
        asked == {i \in DOMAIN cbs : cbs[i].query_fn /\ answers[i].supported}
    IN IF asked = {}
       THEN NoNames
       ELSE answers[CHOOSE i \in asked : \A j \in asked : i <= j]

(***************************************************************************)
(* Value bindings.                                                         *)
(***************************************************************************)
NoBindings == [null |-> TRUE, list |-> <<>>]

\* First entry of list whose item is id, as a list of at most one entry.
FirstMatch(list, id) ==
    LET m == {i \in DOMAIN list : list[i].item = id}
    IN IF m = {} THEN <<>> ELSE <<list[CHOOSE i \in m : \A j \in m : i <= j]>>

\* Last entry of list whose item is id, as a list of at most one entry.
LastMatch(list, id) ==
    LET m == {i \in DOMAIN list : list[i].item = id}
    IN IF m = {} THEN <<>> ELSE <<list[CHOOSE i \in m : \A j \in m : j <= i]>>

\* xccdf_policy_get_setvalue(policy, id)
xccdf_policy_get_setvalue(id) == LastMatch(ProfileSetvalues, id)

\* xccdf_policy_get_refine_value(policy, id)
xccdf_policy_get_refine_value(id) == LastMatch(ProfileRefineValues, id)

\* xccdf_value_get_instance_by_selector(value, selector), as a list of at most
\* one instance.
xccdf_value_get_instance_by_selector(value, selector) ==
    LET insts == ValueInstances(value)
        m == {i \in DOMAIN insts : insts[i].selector = selector}
    IN IF m = {} THEN <<>> ELSE <<insts[CHOOSE i \in m : \A j \in m : i <= j]>>

\* What a refine-value without operator attribute holds as its operator.
OPERATOR_NOT_GIVEN == "<no operator>"

\* xccdf_value_get_oper(value)
ValueOper(value) == IF value = "v1" THEN "greater than" ELSE "equals"

\* isnan(x) of an xccdf_operator_t: the enumerator is converted to double, and
\* no enumerator converts to NaN, the one value that differs from itself.
isnan(x) == x # x

\* The operator xccdf_policy_check_get_value_bindings gives the binding of a
\* Value, r_value being the list of at most one refine-value that names it.
binding_operator(r_value, value) ==
    IF r_value # <<>>
    THEN IF ~isnan(r_value[1].oper) THEN r_value[1].oper ELSE ValueOper(value)
    ELSE ValueOper(value)

\* One export's binding in xccdf_policy_check_get_value_bindings for a
\* Profile with the given setvalues and refine-values, as a list of at most
\* one binding: none when the Value or its instance is missing.
export_binding_of(setvalues, refine_values, export) ==
    IF ItemType(export.value) = NULL
    THEN <<>>
    ELSE LET s_value == LastMatch(setvalues, export.value)
             r_value == LastMatch(refine_values, export.value)
             selector == IF r_value # <<>> THEN r_value[1].selector ELSE NULL
             val == xccdf_value_get_instance_by_selector(export.value, selector)
         IN IF val = <<>>
            THEN <<>>
            ELSE <<[name |-> export.name, value |-> val[1].value,
                    setvalue |-> IF s_value # <<>> THEN s_value[1].value ELSE NULL,
                    operator |-> binding_operator(r_value, export.value)]>>

\* Bindings that leave out the exports that cannot be bound.
check_get_value_bindings_SkipMissing(setvalues, refine_values, exports) ==
    LET bound == SelectSeq(exports,
                     LAMBDA e : export_binding_of(setvalues, refine_values, e) # <<>>)
    IN [null |-> FALSE,
        list |-> [i \in DOMAIN bound |->
                     export_binding_of(setvalues, refine_values, bound[i])[1]]]

\* The loop of xccdf_policy_check_get_value_bindings for a Profile with the
\* given setvalues and refine-values: the list of bindings, or NULL as soon as
\* one export cannot be bound.
check_get_value_bindings(setvalues, refine_values, exports) ==
    IF \E i \in DOMAIN exports :
           export_binding_of(setvalues, refine_values, exports[i]) = <<>>
    THEN NoBindings
    ELSE [null |-> FALSE,
          list |-> [i \in DOMAIN exports |->
                       export_binding_of(setvalues, refine_values, exports[i])[1]]]

\* One export's binding under the policy's Profile.
export_binding(export) ==
    export_binding_of(ProfileSetvalues, ProfileRefineValues, export)

\* xccdf_policy_check_get_value_bindings(policy, exports)
xccdf_policy_check_get_value_bindings(exports) ==
    check_get_value_bindings(ProfileSetvalues, ProfileRefineValues, exports)

(***************************************************************************)
(* CPE applicability.  What cpe_platform_applicable_lang_model and         *)
(* cpe_name_applicable_dict answer for a source and a platform is given by *)
(* cpe.match.                                                              *)
(***************************************************************************)
\* The platform string with a leading '#' skipped.
PlatformShifted_Kept(platform) == platform

PlatformShifted(platform) == IF platform = "#p1" THEN "p1" ELSE platform

\* cpe_name_check(platform): the string is a CPE name.
cpe_name_check(platform) == platform \in {"cpe:/o:x"}

\* The Benchmark as an item: the root every parent chain ends in.
BENCHMARK == "benchmark"

\* xccdf_item_get_parent(item): the Benchmark for an item of the Benchmark's own
\* content, NULL for the Benchmark.
xccdf_item_get_parent(item) ==
    IF item = BENCHMARK THEN NULL
    ELSE IF ItemParent(item) = NULL THEN BENCHMARK ELSE ItemParent(item)

\* xccdf_item_get_platforms(item); the platform references of the Benchmark
\* are an input held with the CPE sources.
xccdf_item_get_platforms(item) ==
    IF item = BENCHMARK THEN cpe.bm_platforms ELSE ItemPlatforms(item)

\* xccdf_policy_model_item_is_applicable_lang_model(model, lang_model, item)
xccdf_policy_model_item_is_applicable_lang_model(lang_model, item) ==
    \E i \in DOMAIN xccdf_item_get_platforms(item) :
        <<lang_model, PlatformShifted(xccdf_item_get_platforms(item)[i])>> \in cpe.match

\* xccdf_policy_model_item_is_applicable_dict(model, dict, item)
xccdf_policy_model_item_is_applicable_dict(dict, item) ==
    \E i \in DOMAIN xccdf_item_get_platforms(item) :
        /\ cpe_name_check(xccdf_item_get_platforms(item)[i])
        /\ <<dict, xccdf_item_get_platforms(item)[i]>> \in cpe.match

\* The sources tried for an item that has platforms, in the order tried.
item_platform_sources_match(item) ==
    \/ cpe.emb_lang /\ xccdf_policy_model_item_is_applicable_lang_model("emb_lang", item)
    \/ \E i \in DOMAIN cpe.ext_langs :
           xccdf_policy_model_item_is_applicable_lang_model(cpe.ext_langs[i], item)
    \/ cpe.emb_dict /\ xccdf_policy_model_item_is_applicable_dict("emb_dict", item)
    \/ \E i \in DOMAIN cpe.ext_dicts :
           xccdf_policy_model_item_is_applicable_dict(cpe.ext_dicts[i], item)

\* The body of xccdf_policy_model_item_is_applicable without the test of the
\* parent.
item_is_applicable_OwnOnly(item) ==
    IF xccdf_item_get_platforms(item) # <<>> THEN item_platform_sources_match(item) ELSE TRUE

RECURSIVE xccdf_policy_model_item_is_applicable(_)
\* xccdf_policy_model_item_is_applicable(model, item)
xccdf_policy_model_item_is_applicable(item) ==
    IF xccdf_item_get_parent(item) = NULL
       \/ xccdf_policy_model_item_is_applicable(xccdf_item_get_parent(item))
    THEN IF xccdf_item_get_platforms(item) # <<>>
         THEN item_platform_sources_match(item)
         ELSE TRUE
    ELSE FALSE

\* The loop of xccdf_policy_get_refine_rules_by_rule over the refine-rules of
\* a Profile: the first that names the item, as a list of at most one.
refine_rules_by_rule(refine_rules, item) ==
    LET m == {i \in DOMAIN refine_rules : refine_rules[i].item = item}
    IN IF m = {} THEN <<>> ELSE <<refine_rules[CHOOSE i \in m : \A j \in m : i <= j]>>

\* The simple checks among checks whose selector is the given one, in
\* declaration order.
checks_filtered(checks, selector) ==
    SelectSeq(checks, LAMBDA c : c.selector = selector)

\* The choice of _xccdf_policy_rule_get_applicable_check with the first
\* candidate that has a registered engine instead of the last.
rule_get_applicable_check_First(complex_checks, checks, refine_rules, rule) ==
    IF complex_checks # <<>>
    THEN <<complex_checks[1]>>
    ELSE LET r_rule == refine_rules_by_rule(refine_rules, rule)
             selector == IF r_rule = <<>> THEN NULL ELSE r_rule[1].selector
             filtered == checks_filtered(checks, selector)
             candidates == IF selector # NULL /\ filtered = <<>>
                           THEN checks_filtered(checks, NULL)
                           ELSE filtered
             registered == SelectSeq(candidates,
                               LAMBDA c : _xccdf_policy_is_engine_registered(c.system))
         IN IF registered = <<>> THEN NoCheck ELSE <<registered[1]>>

\* The body of _xccdf_policy_rule_get_applicable_check for a Rule with the
\* given complex checks and simple checks and a Profile with the given
\* refine-rules, as a list of at most one check.
rule_get_applicable_check(complex_checks, checks, refine_rules, rule) ==
    IF complex_checks # <<>>
    THEN <<complex_checks[1]>>
    ELSE LET r_rule == refine_rules_by_rule(refine_rules, rule)
             selector == IF r_rule = <<>> THEN NULL ELSE r_rule[1].selector
             filtered == checks_filtered(checks, selector)
             candidates == IF selector # NULL /\ filtered = <<>>
                           THEN checks_filtered(checks, NULL)
                           ELSE filtered
             registered == SelectSeq(candidates,
                               LAMBDA c : _xccdf_policy_is_engine_registered(c.system))
         IN IF registered = <<>> THEN NoCheck ELSE <<registered[Len(registered)]>>

(***************************************************************************)
(* Check chooser.                                                          *)
(***************************************************************************)
\* xccdf_policy_get_refine_rules_by_rule(policy, item), as a list of at most one
\* refine-rule: the first of the Profile that names the item.
xccdf_policy_get_refine_rules_by_rule(item) ==
    refine_rules_by_rule(ProfileRefineRules, item)

\* xccdf_rule_get_checks_filtered(rule, selector): the rule's simple checks
\* whose selector is the given one, in declaration order.
xccdf_rule_get_checks_filtered(rule, selector) ==
    checks_filtered(RuleChecks(rule), selector)

\* _xccdf_policy_rule_get_applicable_check(policy, rule), as a list of at most
\* one check.
_xccdf_policy_rule_get_applicable_check(rule) ==
    rule_get_applicable_check(RuleComplexChecks(rule), RuleChecks(rule),
                              ProfileRefineRules, rule)

(***************************************************************************)
(* xccdf_policy_check_evaluate.  The engines' answers are read from the    *)
(* list oracle, one entry per call, in the order of the calls.             *)
(***************************************************************************)
\* xccdf_check_inject_content_ref(check, content, name): the check's
\* content-refs become the one given, under the given name unless it is NULL.
xccdf_check_inject_content_ref(check, content, name) ==
    [check EXCEPT !.content_refs =
        <<IF name # NULL THEN ContentRef(content.href, name) ELSE content>>]

\* The engine calls a check can make at most, with n engines for its system.
RECURSIVE MaxCalls(_)
MaxCalls(check) ==
    IF check.complex
    THEN LET RECURSIVE sum(_)
             sum(i) == IF i > Len(check.children) THEN 0
                       ELSE MaxCalls(check.children[i]) + sum(i + 1)
         IN sum(1)
    ELSE Len(check.content_refs) * Len(_xccdf_policy_get_callbacks_by_sysname(check.system))

RECURSIVE xccdf_policy_check_evaluate(_, _, _)
RECURSIVE check_evaluate_children(_, _, _, _, _, _)
RECURSIVE check_evaluate_refs(_, _, _, _, _, _)

\* The loop of xccdf_policy_check_evaluate over the children of a complex
\* check: ret is the value folded so far, pos the next oracle entry.
check_evaluate_children(check, i, ret, oracle, pos, calls) ==
    IF i > Len(check.children)
    THEN [ret |-> ret, pos |-> pos, calls |-> calls, check |-> check]
    ELSE LET c == xccdf_policy_check_evaluate(check.children[i], oracle, pos)
             pinned == [check EXCEPT !.children[i] = c.check]
         IN IF c.ret = -1
            THEN [ret |-> -1, pos |-> c.pos, calls |-> calls \o c.calls, check |-> pinned]
            ELSE check_evaluate_children(
                     pinned, i + 1,
                     IF ret = 0 THEN c.ret ELSE _resolve_operation(ret, c.ret, check.oper),
                     oracle, c.pos, calls \o c.calls)

\* The loop of xccdf_policy_check_evaluate over the content-refs of a simple
\* check.
check_evaluate_refs(check, i, ret, oracle, pos, calls) ==
    IF i > Len(check.content_refs)
    THEN [ret |-> ret, pos |-> pos, calls |-> calls, check |-> check]
    ELSE LET n == Len(_xccdf_policy_get_callbacks_by_sysname(check.system))
             content == check.content_refs[i]
             d == xccdf_policy_evaluate_cb(check.system, SubSeq(oracle, pos, pos + n - 1))
             made == [k \in 1 .. d.called |->
                         [ev |-> "eval", href |-> content.href, name |-> content.name,
                          engine |-> k, ret |-> oracle[pos + k - 1]]]
         IN IF d.retval # XCCDF_RESULT_NOT_CHECKED
            THEN [ret |-> d.retval, pos |-> pos + d.called, calls |-> calls \o made,
                  check |-> xccdf_check_inject_content_ref(check, content, NULL)]
            ELSE check_evaluate_refs(check, i + 1, d.retval, oracle, pos + d.called,
                                     calls \o made)

\* xccdf_policy_check_evaluate without its final _resolve_negate.
xccdf_policy_check_evaluate_NotNegated(check, oracle, pos) ==
    IF check.complex
    THEN check_evaluate_children(check, 1, 0, oracle, pos, <<>>)
    ELSE IF xccdf_policy_check_get_value_bindings(check.exports).null
         THEN [ret |-> XCCDF_RESULT_UNKNOWN, pos |-> pos, calls |-> <<>>, check |-> check]
         ELSE check_evaluate_refs(check, 1, 0, oracle, pos, <<>>)

\* xccdf_policy_check_evaluate(policy, check, rule_id): ret is the value
\* returned, check the check as the evaluation leaves it (content-refs pinned),
\* calls the engine calls made.
xccdf_policy_check_evaluate(check, oracle, pos) ==
    IF check.complex
    THEN LET r == check_evaluate_children(check, 1, 0, oracle, pos, <<>>)
         IN IF r.ret = -1 THEN r ELSE [r EXCEPT !.ret = _resolve_negate(r.ret, check)]
    ELSE IF xccdf_policy_check_get_value_bindings(check.exports).null
         THEN [ret |-> XCCDF_RESULT_UNKNOWN, pos |-> pos, calls |-> <<>>, check |-> check]
         ELSE LET r == check_evaluate_refs(check, 1, 0, oracle, pos, <<>>)
              IN [r EXCEPT !.ret = _resolve_negate(r.ret, check)]

(***************************************************************************)
(* Values the variables hold before the operation that sets them.          *)
(***************************************************************************)
NoResult == [null |-> TRUE, rule_results |-> <<>>]
NotReturned == [returned |-> FALSE, result |-> NoResult]
NoCur == [rule |-> NULL, is_selected |-> FALSE, check |-> <<>>, content_i |-> 0,
          assigned |-> FALSE, ret |-> 0, message |-> NULL, queried |-> FALSE,
          names |-> <<>>, name_i |-> 0, after |-> NULL, asked_applicable |-> FALSE]
NoOp == [A |-> 0, B |-> 0, oper |-> NULL, value |-> -1, negate |-> FALSE, negated |-> -1]
NoCallbacks == [s \in CallbackSystems |-> <<>>]
NoCpe == [emb_lang |-> FALSE, ext_langs |-> <<>>, emb_dict |-> FALSE, ext_dicts |-> <<>>,
          match |-> {}, bm_platforms |-> <<>>]

\* All sequences over S of length at most n.
SeqUpTo(n, S) == UNION {[1 .. k -> S] : k \in 0 .. n}

\* The ids a select of a Profile may name: the Benchmark's items and one id
\* the Benchmark does not hold.
SelectIds == Items \cup {"nx"}

(***************************************************************************)
(* The result algebra on its own: one call of _resolve_operation.          *)
(***************************************************************************)
AlgInit ==
    /\ pc = "alg"
    /\ op \in [A : 0 .. 9, B : 0 .. 9, oper : {XCCDF_OPERATOR_AND, XCCDF_OPERATOR_OR},
               value : {-1}, negate : BOOLEAN, negated : {-1}]
    /\ bm_selected = [i \in Groups \cup Rules |-> TRUE]
    /\ profile_selects = <<>>
    /\ cpe = NoCpe
    /\ callbacks = NoCallbacks
    /\ selects = <<>>
    /\ ht_selects = NoTable
    /\ sel_it = 0
    /\ result = NoResult
    /\ policy_results = <<>>
    /\ retval = NotReturned
    /\ cur = NoCur
    /\ trace = <<>>

\* A call _resolve_operation(A, B, oper) and its return value.
ResolveOperation ==
    /\ pc = "alg"
    /\ op.value = -1
    /\ op' = [op EXCEPT !.value = _resolve_operation(op.A, op.B, op.oper)]
    /\ UNCHANGED <<pc, bm_selected, profile_selects, cpe, callbacks, selects,
                   ht_selects, sel_it, result, policy_results, retval, cur, trace>>

\* The call _resolve_negate(ret, check) that follows the combination, for a
\* check whose negate flag is op.negate, and its return value.
ResolveNegate ==
    /\ pc = "alg"
    /\ op.value # -1
    /\ op.negated = -1
    /\ op' = [op EXCEPT !.negated = _resolve_negate(op.value, [negate |-> op.negate])]
    /\ UNCHANGED <<pc, bm_selected, profile_selects, cpe, callbacks, selects,
                   ht_selects, sel_it, result, policy_results, retval, cur, trace>>

AlgNext == ResolveOperation \/ ResolveNegate

AlgSpec == AlgInit /\ [][AlgNext]_vars

(***************************************************************************)
(* Policy construction on its own: xccdf_policy_new for every Profile of   *)
(* at most MaxSelects selects and every default selection of the items.    *)
(***************************************************************************)
SelInit ==
    /\ pc = "new"
    /\ bm_selected \in [Groups \cup Rules -> BOOLEAN]
    /\ profile_selects \in SeqUpTo(MaxSelects, [item : SelectIds, selected : BOOLEAN])
    /\ cpe = NoCpe
    /\ callbacks = NoCallbacks
    /\ selects = <<>>
    /\ ht_selects = NoTable
    /\ sel_it = 0
    /\ result = NoResult
    /\ policy_results = <<>>
    /\ retval = NotReturned
    /\ cur = NoCur
    /\ trace = <<>>
    /\ op = NoOp

SelNext == xccdf_policy_new

SelSpec == SelInit /\ [][SelNext]_vars

(***************************************************************************)
(* Evaluation: a policy is constructed, engines and hooks are registered,  *)
(* and xccdf_policy_evaluate runs once.  trace records, in order, every    *)
(* hook firing, engine call, names query and RuleResult appended.          *)
(***************************************************************************)
AllSelected == [i \in Groups \cup Rules |-> TRUE]

\* The selects the Profile is built from.
ProfileSelectChoices ==
    {Select("g1", FALSE), Select("r1", TRUE), Select("r2", TRUE), Select("nx", TRUE)}

\* The CPE sources of the model: an embedded language model and an embedded
\* dictionary, each matching the platform written for it or not.
CpeInputs ==
    {[NoCpe EXCEPT !.emb_lang = TRUE, !.emb_dict = TRUE, !.match = m] :
        m \in SUBSET {<<"emb_lang", "p1">>, <<"emb_dict", "cpe:/o:x">>}}

Init ==
    /\ pc = "new"
    /\ bm_selected \in {AllSelected, [AllSelected EXCEPT !["r3"] = FALSE]}
    /\ profile_selects \in SeqUpTo(MaxSelects, ProfileSelectChoices)
    /\ cpe \in CpeInputs
    /\ callbacks = NoCallbacks
    /\ selects = <<>>
    /\ ht_selects = NoTable
    /\ sel_it = 0
    /\ result = NoResult
    /\ policy_results = <<>>
    /\ retval = NotReturned
    /\ cur = NoCur
    /\ trace = <<>>
    /\ op = NoOp

\* xccdf_policy_model_register_engine_and_query_callback(model, "oval", ...)
RegisterEngine ==
    /\ pc = "ready"
    /\ \E sys \in EngineSystems, query \in BOOLEAN :
        /\ Len(callbacks[sys]) < MaxEngines
        /\ callbacks' = [callbacks EXCEPT ![sys] = Append(@, [query_fn |-> query])]
    /\ UNCHANGED <<pc, bm_selected, profile_selects, cpe, selects, ht_selects, sel_it,
                   result, policy_results, retval, cur, trace, op>>

\* xccdf_policy_model_register_start_callback(model, func, usr)
RegisterStart ==
    /\ pc = "ready"
    /\ Len(callbacks[START_URI]) < MaxHooks
    /\ callbacks' = [callbacks EXCEPT ![START_URI] = Append(@, [query_fn |-> FALSE])]
    /\ UNCHANGED <<pc, bm_selected, profile_selects, cpe, selects, ht_selects, sel_it,
                   result, policy_results, retval, cur, trace, op>>

\* xccdf_policy_model_register_output_callback(model, func, usr)
RegisterOutput ==
    /\ pc = "ready"
    /\ Len(callbacks[OUTPUT_URI]) < MaxHooks
    /\ callbacks' = [callbacks EXCEPT ![OUTPUT_URI] = Append(@, [query_fn |-> FALSE])]
    /\ UNCHANGED <<pc, bm_selected, profile_selects, cpe, selects, ht_selects, sel_it,
                   result, policy_results, retval, cur, trace, op>>

\* xccdf_policy_evaluate up to its loop over policy->selects.
EvaluateBegin ==
    /\ pc = "ready"
    /\ ~retval.returned
    /\ result' = [null |-> FALSE, rule_results |-> <<>>]
    /\ sel_it' = 1
    /\ pc' = "select"
    /\ UNCHANGED <<bm_selected, profile_selects, cpe, callbacks, selects, ht_selects,
                   policy_results, retval, cur, trace, op>>

\* What the loop of xccdf_policy_evaluate does with the value of
\* xccdf_policy_item_evaluate lost to a worse one: as "break" for every
\* non-zero value, -1 included.
evaluate_after_item_KeepOnAbort(ret) ==
    IF ret # 0 THEN "break" ELSE "continue"

\* What the loop of xccdf_policy_evaluate does with the value ret of
\* xccdf_policy_item_evaluate: -1 frees the result and returns NULL, another
\* non-zero value leaves the loop, 0 goes on to the next select.
evaluate_after_item(ret) ==
    IF ret = -1 THEN "free"
    ELSE IF ret # 0 THEN "break"
    ELSE "continue"

\* _xccdf_policy_rule_evaluate returns ret to xccdf_policy_item_evaluate, which
\* returns it to the loop of xccdf_policy_evaluate.
ReturnToEvaluate(ret) ==
    /\ cur' = NoCur
    /\ CASE evaluate_after_item(ret) = "free" ->
                /\ pc' = "done"
                /\ result' = NoResult
                /\ retval' = [returned |-> TRUE, result |-> NoResult]
                /\ UNCHANGED <<sel_it, policy_results>>
         [] evaluate_after_item(ret) = "break" ->
                /\ pc' = "done"
                /\ policy_results' = Append(policy_results, result)
                /\ retval' = [returned |-> TRUE, result |-> result]
                /\ UNCHANGED <<sel_it, result>>
         [] OTHER ->
                /\ pc' = "select"
                /\ sel_it' = sel_it + 1
                /\ UNCHANGED <<result, policy_results, retval>>

\* The loop of xccdf_policy_evaluate at a select that names no item of the
\* Benchmark or a Group (continue), or a Value (xccdf_policy_item_evaluate
\* returns 0).
EvaluateSkip ==
    /\ pc = "select"
    /\ sel_it <= Len(selects)
    /\ ItemType(selects[sel_it].item) # "XCCDF_RULE"
    /\ sel_it' = sel_it + 1
    /\ UNCHANGED <<pc, bm_selected, profile_selects, cpe, callbacks, selects, ht_selects,
                   result, policy_results, retval, cur, trace, op>>

\* The end of xccdf_policy_evaluate when the loop runs out of selects.
EvaluateFinish ==
    /\ pc = "select"
    /\ sel_it > Len(selects)
    /\ policy_results' = Append(policy_results, result)
    /\ retval' = [returned |-> TRUE, result |-> result]
    /\ pc' = "done"
    /\ UNCHANGED <<bm_selected, profile_selects, cpe, callbacks, selects, ht_selects,
                   sel_it, result, cur, trace, op>>

\* The firings of the hooks of sysname for a rule, rets[i] being what the
\* i-th hook returns; rr is the position of the RuleResult handed to an
\* output hook, 0 for a start hook.
HookEvents(sysname, rule, rr, rets) ==
    [i \in 1 .. xccdf_policy_report_cb(sysname, rets).fired |->
        [ev |-> sysname, rule |-> rule, rr |-> rr, ret |-> rets[i]]]

\* _xccdf_policy_rule_evaluate from its entry to the return of the start
\* hooks.
RuleStart ==
    /\ pc = "select"
    /\ sel_it <= Len(selects)
    /\ ItemType(selects[sel_it].item) = "XCCDF_RULE"
    /\ LET rule == selects[sel_it].item
       IN \E rets \in [1 .. Len(callbacks[START_URI]) -> HookReturns] :
            LET report == xccdf_policy_report_cb(START_URI, rets).retval
            IN /\ trace' = trace \o HookEvents(START_URI, rule, 0, rets)
               /\ IF report # 0
                  THEN ReturnToEvaluate(report)
                  ELSE /\ pc' = "rule"
                       /\ cur' = [NoCur EXCEPT !.rule = rule,
                                    !.is_selected = _xccdf_policy_is_rule_selected(rule)]
                       /\ UNCHANGED <<sel_it, result, policy_results, retval>>
    /\ UNCHANGED <<bm_selected, profile_selects, cpe, callbacks, selects, ht_selects, op>>

\* _xccdf_rule_result_new_from_rule(rule, check, eval_result, message); check
\* is a list of at most one check.
_xccdf_rule_result_new_from_rule(rule, check, eval_result, message) ==
    [idref |-> rule, result |-> eval_result, check |-> check, message |-> message]

\* The first half of _xccdf_policy_report_rule_result with res # -1: the
\* RuleResult is built and appended to the TestResult; the output hooks are
\* next.  calls are the events that led to res.
AddRuleResult(rule, check, res, message, calls) ==
    /\ result' = [result EXCEPT !.rule_results =
                     Append(@, _xccdf_rule_result_new_from_rule(rule, check, res, message))]
    /\ trace' = trace \o calls \o
                    <<[ev |-> "result", rule |-> rule,
                       rr |-> Len(result.rule_results) + 1, ret |-> res]>>
    /\ pc' = "output"
    /\ UNCHANGED <<sel_it, policy_results, retval>>

\* Engine-call events of the rule in hand.
RuleCalls(calls) ==
    [i \in DOMAIN calls |-> [ev |-> "eval", rule |-> cur.rule, rr |-> 0,
                             ret |-> calls[i].ret, href |-> calls[i].href,
                             name |-> calls[i].name, engine |-> calls[i].engine]]

\* The verdicts of _xccdf_policy_rule_evaluate with the tests for selection
\* and applicability in the other order.
rule_verdict_ApplicableFirst(rule, is_selected) ==
    IF ~xccdf_policy_model_item_is_applicable(rule)
    THEN [final |-> TRUE, res |-> XCCDF_RESULT_NOT_APPLICABLE, message |-> NULL,
          check |-> NoCheck, asked_applicable |-> TRUE]
    ELSE IF ~is_selected
    THEN [final |-> TRUE, res |-> XCCDF_RESULT_NOT_SELECTED, message |-> NULL,
          check |-> NoCheck, asked_applicable |-> TRUE]
    ELSE IF _xccdf_policy_rule_get_applicable_check(rule) = NoCheck
    THEN [final |-> TRUE, res |-> XCCDF_RESULT_NOT_CHECKED,
          message |-> "No candidate or applicable check found.", check |-> NoCheck, asked_applicable |-> TRUE]
    ELSE [final |-> FALSE, res |-> 0, message |-> NULL,
          check |-> _xccdf_policy_rule_get_applicable_check(rule),
          asked_applicable |-> TRUE]

\* _xccdf_policy_rule_evaluate between the start hooks and the evaluation of
\* a check: the verdicts reported without a check, in the order tested, or
\* the clone of the chosen check to evaluate; asked_applicable is whether
\* xccdf_policy_model_item_is_applicable, the one place from which the CPE
\* sources and their content loader are reached, was called.
rule_verdict(rule, is_selected) ==
    IF ~is_selected
    THEN [final |-> TRUE, res |-> XCCDF_RESULT_NOT_SELECTED, message |-> NULL,
          check |-> NoCheck, asked_applicable |-> FALSE]
    ELSE IF ~xccdf_policy_model_item_is_applicable(rule)
    THEN [final |-> TRUE, res |-> XCCDF_RESULT_NOT_APPLICABLE, message |-> NULL,
          check |-> NoCheck, asked_applicable |-> TRUE]
    ELSE IF _xccdf_policy_rule_get_applicable_check(rule) = NoCheck
    THEN [final |-> TRUE, res |-> XCCDF_RESULT_NOT_CHECKED,
          message |-> "No candidate or applicable check found.", check |-> NoCheck, asked_applicable |-> TRUE]
    ELSE [final |-> FALSE, res |-> 0, message |-> NULL,
          check |-> _xccdf_policy_rule_get_applicable_check(rule),
          asked_applicable |-> TRUE]

\* _xccdf_policy_rule_evaluate reporting NotSelected, NotApplicable or
\* NotChecked without a check.
RuleReport ==
    /\ pc = "rule"
    /\ LET v == rule_verdict(cur.rule, cur.is_selected)
       IN /\ v.final
          /\ AddRuleResult(cur.rule, v.check, v.res, v.message, <<>>)
          /\ cur' = [cur EXCEPT !.after = "return",
                                !.asked_applicable = v.asked_applicable]
    /\ UNCHANGED <<bm_selected, profile_selects, cpe, callbacks, selects, ht_selects, op>>

\* _xccdf_policy_rule_evaluate with a complex check: the clone is evaluated by
\* xccdf_policy_check_evaluate and the value reported.
RuleComplex ==
    /\ pc = "rule"
    /\ LET v == rule_verdict(cur.rule, cur.is_selected)
       IN /\ ~v.final
          /\ v.check[1].complex
          /\ \E oracle \in [1 .. MaxCalls(v.check[1]) -> EngineResults] :
                LET e == xccdf_policy_check_evaluate(v.check[1], oracle, 1)
                IN IF e.ret = -1
                   THEN /\ trace' = trace \o RuleCalls(e.calls)
                        /\ ReturnToEvaluate(-1)
                   ELSE /\ AddRuleResult(cur.rule, <<e.check>>, e.ret, NULL,
                                         RuleCalls(e.calls))
                        /\ cur' = [cur EXCEPT !.check = <<e.check>>, !.after = "return",
                                              !.asked_applicable = v.asked_applicable]
    /\ UNCHANGED <<bm_selected, profile_selects, cpe, callbacks, selects, ht_selects, op>>

\* _xccdf_policy_rule_evaluate with a simple check, up to the loop over its
\* content-refs: without value bindings Unknown is reported.
RuleSimple ==
    /\ pc = "rule"
    /\ LET v == rule_verdict(cur.rule, cur.is_selected)
       IN /\ ~v.final
          /\ ~v.check[1].complex
          /\ IF xccdf_policy_check_get_value_bindings(v.check[1].exports).null
             THEN /\ AddRuleResult(cur.rule, v.check, XCCDF_RESULT_UNKNOWN,
                                   "Value bindings not found.", <<>>)
                  /\ cur' = [cur EXCEPT !.check = v.check, !.after = "return",
                                        !.asked_applicable = v.asked_applicable]
             ELSE /\ pc' = "content"
                  /\ cur' = [cur EXCEPT !.check = v.check, !.content_i = 1,
                                        !.asked_applicable = v.asked_applicable]
                  /\ UNCHANGED <<sel_it, result, policy_results, retval, trace>>
    /\ UNCHANGED <<bm_selected, profile_selects, cpe, callbacks, selects, ht_selects, op>>

\* The content-ref the loop of _xccdf_policy_rule_evaluate is at.
CurContent == cur.check[1].content_refs[cur.content_i]

\* The content-ref in hand is one a multi-check is asked the names of.
CurIsMultiCheck == CurContent.name = NULL /\ cur.check[1].multicheck

\* The values an int that was never assigned may hold.
UninitializedInts == 0 .. XCCDF_RESULT_INFORMATIONAL

\* The end of _xccdf_policy_rule_evaluate: ret is negated once and reported.
ReportSimple(check, ret, message, calls) ==
    /\ AddRuleResult(cur.rule, <<check>>, _resolve_negate(ret, check),
                     IF ret = XCCDF_RESULT_NOT_CHECKED
                     THEN "None of the check-content-ref elements was resolvable."
                     ELSE message,
                     calls)
    /\ cur' = [cur EXCEPT !.check = <<check>>, !.after = "return"]

\* An empty list of names reported like a content-ref no engine resolved.
multicheck_no_definitions_NotChecked ==
    [res |-> XCCDF_RESULT_NOT_CHECKED,
     message |-> "None of the check-content-ref elements was resolvable."]

\* What _xccdf_policy_rule_evaluate reports when the names query of a
\* multi-check returns an empty list.
multicheck_no_definitions ==
    [res |-> XCCDF_RESULT_UNKNOWN,
     message |-> "No definitions found for @multi-check."]

\* The loop over content-refs at a nameless content-ref of a multi-check: the
\* engines are asked for the names of the href.
ContentQuery ==
    /\ pc = "content"
    /\ cur.content_i <= Len(cur.check[1].content_refs)
    /\ CurIsMultiCheck /\ ~cur.queried
    /\ LET check == cur.check[1]
           n == Len(_xccdf_policy_get_callbacks_by_sysname(check.system))
       IN \E answers \in [1 .. n -> QueryAnswers] :
            LET names == _xccdf_policy_get_namesfor_href(check.system, answers)
                asked == [ev |-> "query", rule |-> cur.rule, rr |-> 0,
                          ret |-> IF names.supported THEN Len(names.names) ELSE -1,
                          href |-> CurContent.href]
            IN IF names.supported
               THEN IF names.names = <<>>
                    THEN /\ AddRuleResult(cur.rule, cur.check, multicheck_no_definitions.res,
                                          multicheck_no_definitions.message,
                                          <<asked>>)
                         /\ cur' = [cur EXCEPT !.after = "return"]
                    ELSE /\ pc' = "mc_eval"
                         /\ cur' = [cur EXCEPT !.names = names.names, !.name_i = 1]
                         /\ trace' = Append(trace, asked)
                         /\ UNCHANGED <<sel_it, result, policy_results, retval>>
               ELSE /\ cur' = [cur EXCEPT !.queried = TRUE,
                                 !.message = "Checking engine does not support multi-check; falling back to multi-check='false'"]
                    /\ trace' = Append(trace, asked)
                    /\ UNCHANGED <<pc, sel_it, result, policy_results, retval>>
    /\ UNCHANGED <<bm_selected, profile_selects, cpe, callbacks, selects, ht_selects, op>>

\* The loop over content-refs at a content-ref that goes to the engines: the
\* first value other than NotChecked pins the content-ref and ends the loop.
ContentDispatch ==
    /\ pc = "content"
    /\ cur.content_i <= Len(cur.check[1].content_refs)
    /\ ~CurIsMultiCheck \/ cur.queried
    /\ LET check == cur.check[1]
           n == Len(_xccdf_policy_get_callbacks_by_sysname(check.system))
       IN \E rets \in [1 .. n -> EngineResults] :
            LET d == xccdf_policy_evaluate_cb(check.system, rets)
                calls == RuleCalls([k \in 1 .. d.called |->
                             [href |-> CurContent.href, name |-> CurContent.name,
                              engine |-> k, ret |-> rets[k]]])
            IN IF d.retval # XCCDF_RESULT_NOT_CHECKED
               THEN ReportSimple(xccdf_check_inject_content_ref(check, CurContent, NULL),
                                 d.retval, cur.message, calls)
               ELSE /\ cur' = [cur EXCEPT !.content_i = @ + 1, !.assigned = TRUE,
                                 !.ret = d.retval, !.message = NULL, !.queried = FALSE]
                    /\ trace' = trace \o calls
                    /\ UNCHANGED <<pc, sel_it, result, policy_results, retval>>
    /\ UNCHANGED <<bm_selected, profile_selects, cpe, callbacks, selects, ht_selects, op>>

\* The loop over content-refs ran out: ret is what the last engine call left,
\* or was never assigned when the check has no content-ref.
ContentDone ==
    /\ pc = "content"
    /\ cur.content_i > Len(cur.check[1].content_refs)
    /\ \E ret \in (IF cur.assigned THEN {cur.ret} ELSE UninitializedInts) :
            ReportSimple(cur.check[1], ret, cur.message, <<>>)
    /\ UNCHANGED <<bm_selected, profile_selects, cpe, callbacks, selects, ht_selects, op>>

\* The loop over the names of a multi-check: a clone of the check pinned to
\* the name is evaluated and its value reported.
MultiCheckEval ==
    /\ pc = "mc_eval"
    /\ LET cloned_check == xccdf_check_inject_content_ref(
                               cur.check[1], CurContent, cur.names[cur.name_i])
       IN \E oracle \in [1 .. MaxCalls(cloned_check) -> EngineResults] :
            LET e == xccdf_policy_check_evaluate(cloned_check, oracle, 1)
            IN IF e.ret = -1
               THEN /\ trace' = trace \o RuleCalls(e.calls)
                    /\ ReturnToEvaluate(-1)
               ELSE /\ AddRuleResult(cur.rule, <<e.check>>, e.ret, NULL,
                                     RuleCalls(e.calls))
                    /\ cur' = [cur EXCEPT !.after = "names"]
    /\ UNCHANGED <<bm_selected, profile_selects, cpe, callbacks, selects, ht_selects, op>>

\* The second half of _xccdf_policy_report_rule_result: the output hooks are
\* fired with the RuleResult just appended, and what they return goes back
\* to _xccdf_policy_rule_evaluate.
OutputHook ==
    /\ pc = "output"
    /\ \E rets \in [1 .. Len(callbacks[OUTPUT_URI]) -> HookReturns] :
        LET report == xccdf_policy_report_cb(OUTPUT_URI, rets).retval
        IN /\ trace' = trace \o HookEvents(OUTPUT_URI, cur.rule,
                                           Len(result.rule_results), rets)
           /\ IF cur.after = "names" /\ report = 0 /\ cur.name_i < Len(cur.names)
              THEN /\ pc' = "mc_start"
                   /\ UNCHANGED <<sel_it, result, policy_results, retval, cur>>
              ELSE ReturnToEvaluate(report)
    /\ UNCHANGED <<bm_selected, profile_selects, cpe, callbacks, selects, ht_selects, op>>

\* The loop over the names of a multi-check going to the next name without
\* firing the start hooks.
MultiCheckStart_Silent ==
    /\ pc = "mc_start"
    /\ pc' = "mc_eval"
    /\ cur' = [cur EXCEPT !.name_i = @ + 1]
    /\ UNCHANGED <<bm_selected, profile_selects, cpe, callbacks, selects, ht_selects, op,
                   sel_it, result, policy_results, retval, trace>>

\* The start hooks fired between two names of a multi-check.
MultiCheckStart ==
    /\ pc = "mc_start"
    /\ \E rets \in [1 .. Len(callbacks[START_URI]) -> HookReturns] :
        LET report == xccdf_policy_report_cb(START_URI, rets).retval
        IN /\ trace' = trace \o HookEvents(START_URI, cur.rule, 0, rets)
           /\ IF report # 0
              THEN ReturnToEvaluate(report)
              ELSE /\ pc' = "mc_eval"
                   /\ cur' = [cur EXCEPT !.name_i = @ + 1]
                   /\ UNCHANGED <<sel_it, result, policy_results, retval>>
    /\ UNCHANGED <<bm_selected, profile_selects, cpe, callbacks, selects, ht_selects, op>>

Next ==
    \/ xccdf_policy_new
    \/ RegisterEngine
    \/ RegisterStart
    \/ RegisterOutput
    \/ EvaluateBegin
    \/ EvaluateSkip
    \/ EvaluateFinish
    \/ RuleStart
    \/ RuleReport
    \/ RuleComplex
    \/ RuleSimple
    \/ ContentQuery
    \/ ContentDispatch
    \/ ContentDone
    \/ MultiCheckEval
    \/ OutputHook
    \/ MultiCheckStart

Spec == Init /\ [][Next]_vars

(***************************************************************************)
(* Reference selection: what the Profile and the Benchmark say of an item, *)
(* read from the item up to the Benchmark root.                            *)
(***************************************************************************)
\* The Profile has a select for the item.
ProfileHasSelect(id) == \E i \in DOMAIN profile_selects : profile_selects[i].item = id

\* The Profile's select for the item, the first in document order that names it.
ProfileSelect(id) == profile_selects[FirstSelect(profile_selects, id)].selected

\* The Profile's select for the item if present, else the item's own flag.
OwnSelected(id) == IF ProfileHasSelect(id) THEN ProfileSelect(id) ELSE bm_selected[id]

RECURSIVE ParentSelected(_)
\* parent_selected as an item receives it: true at the root, false once false,
\* else as its enclosing Group decides.
ParentSelected(id) ==
    IF ItemParent(id) = NULL
    THEN TRUE
    ELSE ParentSelected(ItemParent(id)) /\ OwnSelected(ItemParent(id))

\* Number of entries of policy->selects that name the item.
SelectCount(id) == Cardinality({i \in DOMAIN selects : selects[i].item = id})

\* C4: after construction the effective selection of each Rule is parent_selected
\* AND (the Profile's select for the Rule if present, else the Rule's default),
\* parent_selected being true at the root, false once false, and otherwise
\* the enclosing Group's select in the Profile if present, else its default.
C4_EffectiveSelection ==
    pc = "ready" =>
        \A r \in Rules :
            _xccdf_policy_is_rule_selected(r) = (ParentSelected(r) /\ OwnSelected(r))

\* C4 witness: a constructed policy where a Rule the Profile selects and a
\* Rule it does not name are both decided by a Group the Profile deselects.
C4_Witness ==
    /\ pc = "ready"
    /\ ProfileHasSelect("g1") /\ ~ProfileSelect("g1")
    /\ ProfileHasSelect("r1") /\ ProfileSelect("r1")
    /\ bm_selected["r2"] /\ bm_selected["g2"]
    /\ ~_xccdf_policy_is_rule_selected("r1")
    /\ ~_xccdf_policy_is_rule_selected("r2")
    /\ _xccdf_policy_is_rule_selected("r3")

\* C5 as claimed: after xccdf_policy_new every Rule of the Benchmark has exactly
\* one entry in policy->selects, whatever selects the Profile carries.
C5_OneSelectPerRule ==
    pc = "ready" => \A r \in Rules : SelectCount(r) = 1

\* C9 as claimed: And and Or commute on Pass..Informational.
C9_Commutative ==
    (op.value # -1 /\ op.A \in ResultKinds /\ op.B \in ResultKinds) =>
        op.value = _resolve_operation(op.B, op.A, op.oper)

\* C10 as claimed: And(x, Pass) = x and Or(x, Fail) = x for x in Pass..Unknown.
C10_Identity ==
    (op.value # -1 /\ op.A \in XCCDF_RESULT_PASS .. XCCDF_RESULT_UNKNOWN) =>
        /\ (op.oper = XCCDF_OPERATOR_AND /\ op.B = XCCDF_RESULT_PASS) => op.value = op.A
        /\ (op.oper = XCCDF_OPERATOR_OR /\ op.B = XCCDF_RESULT_FAIL) => op.value = op.A

(***************************************************************************)
(* Reading the trace and the TestResult.                                   *)
(***************************************************************************)
\* The RuleResults of the TestResult in hand.
RuleResults == result.rule_results

\* Positions of the RuleResults that carry the Rule's idref.
RuleResultsOf(r) == {i \in DOMAIN RuleResults : RuleResults[i].idref = r}

\* Position of a Rule in the Benchmark's pre-order.
PreOrderIndex(r) == CHOOSE i \in DOMAIN RulesPreOrder : RulesPreOrder[i] = r

RECURSIVE Encloses(_, _)
\* Group g encloses the item, directly or transitively.
Encloses(g, item) ==
    /\ ItemParent(item) # NULL
    /\ (ItemParent(item) = g \/ Encloses(g, ItemParent(item)))

\* The Profile carries a select with selected = false for the item.
ProfileDeselects(id) == ProfileHasSelect(id) /\ ~ProfileSelect(id)

\* Positions in the trace of hook firings, and of those that returned non-zero.
HookFirings == {i \in DOMAIN trace : trace[i].ev \in {START_URI, OUTPUT_URI}}
HookStops == {i \in HookFirings : trace[i].ret # 0}

\* The names query of a multi-check answered with at least one name for the Rule.
ExpandedByMultiCheck(r) ==
    \E i \in DOMAIN trace : trace[i].ev = "query" /\ trace[i].rule = r /\ trace[i].ret > 0

\* xccdf_policy_evaluate has returned and no hook returned non-zero.
RanToCompletion == pc = "done" /\ HookStops = {}

\* C1 as claimed: after xccdf_policy_evaluate runs to completion the TestResult
\* holds exactly one RuleResult for each Rule not expanded by multi-check and
\* at least one, all with the Rule's idref, for each Rule expanded by it.
C1_OneRuleResultPerRule ==
    RanToCompletion =>
        \A r \in Rules :
            IF ExpandedByMultiCheck(r)
            THEN Cardinality(RuleResultsOf(r)) >= 1
            ELSE Cardinality(RuleResultsOf(r)) = 1

\* C2 as claimed: the RuleResults of the TestResult appear in the Benchmark's
\* pre-order of their Rules, whatever the order of the Profile's selects.
C2_BenchmarkPreOrder ==
    \A i, j \in DOMAIN RuleResults :
        i < j => PreOrderIndex(RuleResults[i].idref) <= PreOrderIndex(RuleResults[j].idref)

\* C3: every RuleResult emitted for a Rule that a Group deselected by the
\* Profile encloses, directly or transitively, is NotSelected, whatever the
\* Rule's default and whatever select the Profile carries for the Rule.
C3_DeselectedGroup ==
    \A i \in DOMAIN RuleResults :
        (\E g \in Groups : Encloses(g, RuleResults[i].idref) /\ ProfileDeselects(g)) =>
            RuleResults[i].result = XCCDF_RESULT_NOT_SELECTED

\* C3 witness: the Profile deselects g1 and selects r1, and the evaluation has
\* emitted NotSelected for r1 (enclosed by g1) and for r2 (enclosed by g2 in g1).
C3_Witness ==
    /\ ProfileDeselects("g1")
    /\ ProfileHasSelect("r1") /\ ProfileSelect("r1")
    /\ bm_selected["r2"]
    /\ \E i \in RuleResultsOf("r1") : RuleResults[i].result = XCCDF_RESULT_NOT_SELECTED
    /\ \E i \in RuleResultsOf("r2") : RuleResults[i].result = XCCDF_RESULT_NOT_SELECTED

\* The RuleResult is one that evaluating a clone of the chosen check gives:
\* for a complex check the value and the pinned clone that
\* xccdf_policy_check_evaluate returns for some answers of the engines; for a
\* simple check a clone of it, its content-refs taken from the chosen check's.
EvaluatedCloneOf(rr, chosen) ==
    /\ rr.check # NoCheck
    /\ rr.result \notin {XCCDF_RESULT_NOT_SELECTED, XCCDF_RESULT_NOT_APPLICABLE}
    /\ rr.message # "No candidate or applicable check found."
    /\ IF chosen.complex
       THEN \E oracle \in [1 .. MaxCalls(chosen) -> EngineResults] :
                LET e == xccdf_policy_check_evaluate(chosen, oracle, 1)
                IN rr.result = e.ret /\ rr.check[1] = e.check
       ELSE /\ rr.check[1].system = chosen.system
            /\ rr.check[1].complex = chosen.complex
            /\ rr.check[1].negate = chosen.negate
            /\ rr.check[1].multicheck = chosen.multicheck
            /\ rr.check[1].exports = chosen.exports
            /\ \A k \in DOMAIN rr.check[1].content_refs :
                   \E l \in DOMAIN chosen.content_refs :
                       rr.check[1].content_refs[k].href = chosen.content_refs[l].href

\* C6: each RuleResult is NotSelected if its Rule is not selected; else
\* NotApplicable if the Rule is not applicable; else NotChecked with the message
\* "No candidate or applicable check found." if the chooser returns no check;
\* else it is the result of evaluating a clone of the chosen check.
C6_Precedence ==
    \A i \in DOMAIN RuleResults :
        LET rr == RuleResults[i]
            chosen == _xccdf_policy_rule_get_applicable_check(rr.idref)
        IN IF ~_xccdf_policy_is_rule_selected(rr.idref)
           THEN rr.result = XCCDF_RESULT_NOT_SELECTED /\ rr.check = NoCheck
           ELSE IF ~xccdf_policy_model_item_is_applicable(rr.idref)
           THEN rr.result = XCCDF_RESULT_NOT_APPLICABLE /\ rr.check = NoCheck
           ELSE IF chosen = NoCheck
           THEN /\ rr.result = XCCDF_RESULT_NOT_CHECKED /\ rr.check = NoCheck
                /\ rr.message = "No candidate or applicable check found."
           ELSE EvaluatedCloneOf(rr, chosen[1])

\* C6 witness: one TestResult holding r3, neither selected nor applicable,
\* reported NotSelected, r2, selected but not applicable, reported
\* NotApplicable, and r1 evaluated by an engine to Fail.
C6_Witness ==
    /\ \E i \in RuleResultsOf("r3") : RuleResults[i].result = XCCDF_RESULT_NOT_SELECTED
    /\ \E i \in RuleResultsOf("r2") : RuleResults[i].result = XCCDF_RESULT_NOT_APPLICABLE
    /\ \E i \in RuleResultsOf("r1") :
            RuleResults[i].result = XCCDF_RESULT_FAIL /\ RuleResults[i].check # NoCheck
    /\ ~_xccdf_policy_is_rule_selected("r3")
    /\ ~xccdf_policy_model_item_is_applicable("r3")
    /\ _xccdf_policy_is_rule_selected("r2")

\* Positions in the trace of the RuleResults appended.
ResultEvents == {k \in DOMAIN trace : trace[k].ev = "result"}

\* Every RuleResult the trace saw appended is in the TestResult, as appended.
AllEmittedKept ==
    /\ Len(RuleResults) = Cardinality(ResultEvents)
    /\ \A k \in ResultEvents :
           /\ RuleResults[trace[k].rr].idref = trace[k].rule
           /\ RuleResults[trace[k].rr].result = trace[k].ret

\* C7: once a start or output hook has returned non-zero nothing follows it: no
\* hook, engine call or RuleResult, and xccdf_policy_evaluate has returned.  If
\* the value was not -1 every RuleResult emitted is in the TestResult, which
\* is returned and appended to the policy's results; if it was -1 no
\* TestResult is returned and the policy's results are as before.
C7_HookStops ==
    \A k \in HookStops :
        /\ k = Len(trace)
        /\ pc = "done"
        /\ retval.returned
        /\ IF trace[k].ret # -1
           THEN /\ ~retval.result.null
                /\ retval.result = result
                /\ AllEmittedKept
                /\ policy_results = <<result>>
           ELSE /\ retval.result.null
                /\ policy_results = <<>>

\* C7 witness: an output hook returned 1 for the second RuleResult and the
\* TestResult returned, also the policy's only result, holds both RuleResults.
C7_Witness ==
    /\ pc = "done"
    /\ \E k \in HookStops : trace[k].ev = OUTPUT_URI /\ trace[k].ret = 1 /\ trace[k].rr = 2
    /\ Len(retval.result.rule_results) = 2
    /\ policy_results = <<retval.result>>

\* C8: with one output hook registered, every RuleResult appended is followed
\* by one firing of the output hook carrying it before any other start hook,
\* engine call or RuleResult, and the output hook fires only right after the
\* RuleResult it carries was appended.
C8_OutputHookPerRuleResult ==
    Len(callbacks[OUTPUT_URI]) = 1 =>
        /\ \A k \in ResultEvents :
               IF k = Len(trace)
               THEN pc = "output"
               ELSE /\ trace[k + 1].ev = OUTPUT_URI
                    /\ trace[k + 1].rr = trace[k].rr
                    /\ trace[k + 1].rule = trace[k].rule
        /\ \A k \in DOMAIN trace :
               trace[k].ev = OUTPUT_URI =>
                   /\ k > 1
                   /\ trace[k - 1].ev = "result"
                   /\ trace[k - 1].rr = trace[k].rr
        /\ pc = "output" => Len(trace) > 0 /\ trace[Len(trace)].ev = "result"

\* C8 witness: with one output hook and one start hook registered the
\* evaluation ended with two RuleResults of the multi-check Rule r2 among
\* its RuleResults, as many output hook firings as RuleResults.
C8_Witness ==
    /\ pc = "done"
    /\ Len(callbacks[OUTPUT_URI]) = 1
    /\ Len(callbacks[START_URI]) = 1
    /\ Cardinality(RuleResultsOf("r2")) = 2
    /\ Cardinality({k \in DOMAIN trace : trace[k].ev = OUTPUT_URI}) = Len(RuleResults)
    /\ Len(RuleResults) >= 3

(***************************************************************************)
(* The evaluation of one check: _xccdf_policy_rule_evaluate from the clone   *)
(* of the chosen check on, for checks of every shape up to the bounds and    *)
(* up to MaxCheckEngines engines, with no hook registered.                   *)
(***************************************************************************)
MaxRefs == 2
MaxCheckEngines == 2

\* The content-refs a simple check under evaluation draws its own from.
TestRefs == <<ContentRef("a.xml", "d1"), ContentRef("b.xml", "d2"),
              ContentRef("c.xml", "d3"), ContentRef("d.xml", "d4"),
              ContentRef("e.xml", "d5")>>

\* Simple checks with up to MaxRefs content-refs.
TestSimpleChecks ==
    {SimpleCheck("oval", NULL, negate, FALSE, SubSeq(TestRefs, 1, n), <<>>) :
        negate \in BOOLEAN, n \in 0 .. MaxRefs}

\* Simple checks with exports: of Value v1, of a Value the Benchmark does
\* not have, and of Value v2, which has no instance without selector.
TestExportingChecks ==
    {SimpleCheck("oval", NULL, FALSE, FALSE, <<TestRefs[1]>>, exports) :
        exports \in {<<[value |-> "v1", name |-> "var1"]>>,
                     <<[value |-> "v1", name |-> "var1"], [value |-> "vx", name |-> "var2"]>>,
                     <<[value |-> "v2", name |-> "var3"]>>}}

\* Multi-checks: one content-ref without a name.
TestMultiChecks ==
    {SimpleCheck("oval", NULL, negate, TRUE, <<ContentRef("x.xml", NULL)>>, <<>>) :
        negate \in BOOLEAN}

\* Complex checks over two simple checks of one content-ref each.
TestComplexChecks ==
    {ComplexCheck(oper, negate,
         << SimpleCheck("oval", NULL, n1, FALSE, <<TestRefs[1]>>, <<>>),
            SimpleCheck("oval", NULL, n2, FALSE, <<TestRefs[2]>>, <<>>) >>) :
        oper \in {XCCDF_OPERATOR_AND, XCCDF_OPERATOR_OR},
        negate \in BOOLEAN, n1 \in BOOLEAN, n2 \in BOOLEAN}

\* Complex checks with nothing to evaluate: without children, and over one
\* simple check without content-refs.
TestEmptyComplexChecks ==
    {ComplexCheck(oper, negate, children) :
        oper \in {XCCDF_OPERATOR_AND, XCCDF_OPERATOR_OR},
        negate \in BOOLEAN,
        children \in {<<>>, <<SimpleCheck("oval", NULL, FALSE, FALSE, <<>>, <<>>)>>}}

\* _xccdf_policy_rule_evaluate holding the clone of the check chosen for rule
\* r1, selected and applicable, in an evaluation that has no RuleResult yet.
CheckInit ==
    /\ bm_selected = AllSelected
    /\ profile_selects = <<>>
    /\ cpe = NoCpe
    /\ callbacks \in {[NoCallbacks EXCEPT !["oval"] = engines] :
                         engines \in SeqUpTo(MaxCheckEngines,
                                             {[query_fn |-> q] : q \in BOOLEAN})}
    /\ selects = policy_new_selects(<<>>)
    /\ ht_selects = [built |-> TRUE, index |-> build_ht_selects(selects, 1, <<>>)]
    /\ sel_it = CHOOSE i \in DOMAIN selects : selects[i].item = "r1"
    /\ result = [null |-> FALSE, rule_results |-> <<>>]
    /\ policy_results = <<>>
    /\ retval = NotReturned
    /\ \E check \in TestSimpleChecks \cup TestExportingChecks \cup TestMultiChecks
                     \cup TestComplexChecks \cup TestEmptyComplexChecks :
          /\ pc = IF check.complex THEN "complex" ELSE "simple"
          /\ cur = [NoCur EXCEPT !.rule = "r1", !.is_selected = TRUE,
                      !.check = <<check>>, !.asked_applicable = TRUE]
    /\ trace = <<>>
    /\ op = NoOp

\* _xccdf_policy_rule_evaluate with the clone of a complex check: it is
\* evaluated by xccdf_policy_check_evaluate and the value reported.
CheckComplex ==
    /\ pc = "complex"
    /\ \E oracle \in [1 .. MaxCalls(cur.check[1]) -> EngineResults] :
          LET e == xccdf_policy_check_evaluate(cur.check[1], oracle, 1)
          IN IF e.ret = -1
             THEN /\ trace' = trace \o RuleCalls(e.calls)
                  /\ ReturnToEvaluate(-1)
             ELSE /\ AddRuleResult(cur.rule, <<e.check>>, e.ret, NULL,
                                   RuleCalls(e.calls))
                  /\ cur' = [cur EXCEPT !.check = <<e.check>>, !.after = "return"]
    /\ UNCHANGED <<bm_selected, profile_selects, cpe, callbacks, selects, ht_selects, op>>

\* _xccdf_policy_rule_evaluate with the clone of a simple check, up to the
\* loop over its content-refs: without value bindings Unknown is reported.
CheckSimple ==
    /\ pc = "simple"
    /\ IF xccdf_policy_check_get_value_bindings(cur.check[1].exports).null
       THEN /\ AddRuleResult(cur.rule, cur.check, XCCDF_RESULT_UNKNOWN,
                             "Value bindings not found.", <<>>)
            /\ cur' = [cur EXCEPT !.after = "return"]
       ELSE /\ pc' = "content"
            /\ cur' = [cur EXCEPT !.content_i = 1]
            /\ UNCHANGED <<sel_it, result, policy_results, retval, trace>>
    /\ UNCHANGED <<bm_selected, profile_selects, cpe, callbacks, selects, ht_selects, op>>

CheckNext ==
    \/ CheckComplex
    \/ CheckSimple
    \/ ContentQuery
    \/ ContentDispatch
    \/ ContentDone
    \/ MultiCheckEval
    \/ OutputHook
    \/ MultiCheckStart

CheckSpec == CheckInit /\ [][CheckNext]_vars

(***************************************************************************)
(* The choice of the check of a Rule: one call of                           *)
(* _xccdf_policy_rule_get_applicable_check for Rule r1, over the checks the *)
(* Rule may carry, the refine-rules the Profile may carry and the engines   *)
(* that may be registered.                                                  *)
(***************************************************************************)
MaxChecks == 3
MaxRefineRules == 2

\* The systems a simple check may name.
TestSystems == {"oval", "sce"}

\* The selectors a simple check may carry, NULL for none.
TestSelectors == {NULL, "s1"}

\* A list of simple checks from their systems and selectors; the i-th carries
\* the i-th of TestRefs, which tells it from the others.
TestChecks(shapes) ==
    [i \in DOMAIN shapes |->
        SimpleCheck(shapes[i].system, shapes[i].selector, FALSE, FALSE,
                    <<TestRefs[i]>>, <<>>)]

\* The refine-rules a Profile may carry.
TestRefineRules ==
    {[item |-> "r1", selector |-> NULL], [item |-> "r1", selector |-> "s1"],
     [item |-> "r1", selector |-> "s2"], [item |-> "r2", selector |-> "s1"]}

\* The complex checks a Rule may carry.
TestRuleComplexChecks ==
    {<<>>,
     <<ComplexCheck(XCCDF_OPERATOR_AND, FALSE, <<>>)>>,
     <<ComplexCheck(XCCDF_OPERATOR_OR, FALSE, <<>>),
       ComplexCheck(XCCDF_OPERATOR_AND, FALSE, <<>>)>>}

ChooseInit ==
    /\ pc = "choose"
    /\ callbacks \in {[s \in CallbackSystems \cup TestSystems |->
                          IF s \in registered THEN <<[query_fn |-> FALSE]>> ELSE <<>>] :
                         registered \in SUBSET TestSystems}
    /\ op \in [complex_checks : TestRuleComplexChecks,
                checks : {TestChecks(shapes) :
                             shapes \in SeqUpTo(MaxChecks,
                                 [system : TestSystems, selector : TestSelectors])},
                refine_rules : SeqUpTo(MaxRefineRules, TestRefineRules),
                rule : {"r1"},
                chosen : {FALSE},
                value : {NoCheck}]
    /\ bm_selected = AllSelected
    /\ profile_selects = <<>>
    /\ cpe = NoCpe
    /\ selects = <<>>
    /\ ht_selects = NoTable
    /\ sel_it = 0
    /\ result = NoResult
    /\ policy_results = <<>>
    /\ retval = NotReturned
    /\ cur = NoCur
    /\ trace = <<>>

\* A call of _xccdf_policy_rule_get_applicable_check and the check it returns.
ChooseCheck ==
    /\ pc = "choose"
    /\ ~op.chosen
    /\ op' = [op EXCEPT !.chosen = TRUE,
                        !.value = rule_get_applicable_check(
                                      op.complex_checks, op.checks, op.refine_rules,
                                      op.rule)]
    /\ UNCHANGED <<pc, bm_selected, profile_selects, cpe, callbacks, selects,
                   ht_selects, sel_it, result, policy_results, retval, cur, trace>>

ChooseNext == ChooseCheck

ChooseSpec == ChooseInit /\ [][ChooseNext]_vars

(***************************************************************************)
(* The value bindings of the exports of a check: one call of                *)
(* xccdf_policy_check_get_value_bindings, over the setvalues and             *)
(* refine-values the Profile may carry.                                      *)
(***************************************************************************)
MaxSetvalues == 2
MaxRefineValues == 2

\* The setvalues a Profile may carry: two literals for Value v1 and one for
\* an id no export names.
TestSetvalues ==
    {[item |-> "v1", value |-> "7"], [item |-> "v1", value |-> "8"],
     [item |-> "v9", value |-> "9"]}

\* The refine-values a Profile may carry: for Value v1 the selector of each
\* of its instances, NULL included, and one no instance has, with and without
\* an operator; and one for an id no export names.
TestRefineValues ==
    {[item |-> "v1", selector |-> NULL, oper |-> OPERATOR_NOT_GIVEN],
     [item |-> "v1", selector |-> "s1", oper |-> OPERATOR_NOT_GIVEN],
     [item |-> "v1", selector |-> "s1", oper |-> "less than"],
     [item |-> "v1", selector |-> "s9", oper |-> OPERATOR_NOT_GIVEN],
     [item |-> "v9", selector |-> "s1", oper |-> "equals"]}

\* The exports a check may carry: of Value v1 under one or two names, or of a
\* Value the Benchmark does not have.
TestExports ==
    {<<>>,
     <<[value |-> "v1", name |-> "var1"]>>,
     <<[value |-> "v1", name |-> "var1"], [value |-> "v1", name |-> "var2"]>>,
     <<[value |-> "v1", name |-> "var1"], [value |-> "vx", name |-> "var3"]>>}

BindInit ==
    /\ pc = "bind"
    /\ op \in [setvalues : SeqUpTo(MaxSetvalues, TestSetvalues),
                refine_values : SeqUpTo(MaxRefineValues, TestRefineValues),
                exports : TestExports,
                bound : {FALSE},
                value : {NoBindings}]
    /\ bm_selected = AllSelected
    /\ profile_selects = <<>>
    /\ cpe = NoCpe
    /\ callbacks = NoCallbacks
    /\ selects = <<>>
    /\ ht_selects = NoTable
    /\ sel_it = 0
    /\ result = NoResult
    /\ policy_results = <<>>
    /\ retval = NotReturned
    /\ cur = NoCur
    /\ trace = <<>>

\* A call of xccdf_policy_check_get_value_bindings and the list it returns.
GetValueBindings ==
    /\ pc = "bind"
    /\ ~op.bound
    /\ op' = [op EXCEPT !.bound = TRUE,
                        !.value = check_get_value_bindings(
                                      op.setvalues, op.refine_values, op.exports)]
    /\ UNCHANGED <<pc, bm_selected, profile_selects, cpe, callbacks, selects,
                   ht_selects, sel_it, result, policy_results, retval, cur, trace>>

BindNext == GetValueBindings

BindSpec == BindInit /\ [][BindNext]_vars

(***************************************************************************)
(* xccdf_policy_model_item_is_applicable alone: one call for a Rule, a      *)
(* Group or the Benchmark, over models with any of the four kinds of CPE   *)
(* source and Benchmarks with and without platform references.             *)
(***************************************************************************)
\* What a source can answer "applicable" for: a language model for the
\* platform p1, a dictionary for the CPE name cpe:/o:x.
ApplMatches ==
    {<<"emb_lang", "p1">>, <<"lang1", "p1">>,
     <<"emb_dict", "cpe:/o:x">>, <<"dict1", "cpe:/o:x">>, <<"emb_dict", "#p1">>}

\* The platform references a Benchmark carries.
ApplBenchmarkPlatforms ==
    {<<>>, <<"#p1">>, <<"p1">>, <<"cpe:/o:x">>, <<"#p1", "cpe:/o:x">>}

ApplCpeInputs ==
    {[emb_lang |-> el, ext_langs |-> xl, emb_dict |-> ed, ext_dicts |-> xd,
      match |-> m, bm_platforms |-> bp] :
        el \in BOOLEAN, xl \in {<<>>, <<"lang1">>},
        ed \in BOOLEAN, xd \in {<<>>, <<"dict1">>},
        m \in SUBSET ApplMatches, bp \in ApplBenchmarkPlatforms}

ApplInit ==
    /\ pc = "appl"
    /\ bm_selected = AllSelected
    /\ profile_selects = <<>>
    /\ cpe \in ApplCpeInputs
    /\ callbacks = NoCallbacks
    /\ selects = <<>>
    /\ ht_selects = NoTable
    /\ sel_it = 0
    /\ result = NoResult
    /\ policy_results = <<>>
    /\ retval = NotReturned
    /\ cur = NoCur
    /\ trace = <<>>
    /\ op \in [item : Rules \cup Groups \cup {BENCHMARK}, called : {FALSE},
              applicable : {FALSE}]

\* One call of xccdf_policy_model_item_is_applicable(model, item).
ItemIsApplicable ==
    /\ pc = "appl"
    /\ ~op.called
    /\ op' = [op EXCEPT !.called = TRUE,
                        !.applicable = xccdf_policy_model_item_is_applicable(op.item)]
    /\ UNCHANGED <<pc, bm_selected, profile_selects, cpe, callbacks, selects, ht_selects,
                   sel_it, result, policy_results, retval, cur, trace>>

ApplNext == ItemIsApplicable

ApplSpec == ApplInit /\ [][ApplNext]_vars

(***************************************************************************)
(* _xccdf_policy_cpe_check_cb alone: a sequence of calls on one model, as  *)
(* the CPE library makes them while platforms are resolved for any Policy  *)
(* of the model.  A path is the sequence of its components; op.sessions is *)
(* model->cpe_oval_sessions, a session is known by the order of creation.  *)
(***************************************************************************)
MaxCpeCalls == 3

\* The hrefs a check of a platform or of a dictionary item names.
CpeHrefs == {<<"a.xml">>, <<"d1", "a.xml">>}

\* What the callback is handed as usr: a dictionary and no language model
\* (lines 904-906), or a language model and no dictionary (lines 946-948).
\* dirname is the dirname of the dictionary's origin file, "." when it has
\* none.
CpeUsrs ==
    {[dict |-> TRUE, lang_model |-> FALSE, dirname |-> <<".">>],
     [dict |-> TRUE, lang_model |-> FALSE, dirname |-> <<"d1">>],
     [dict |-> FALSE, lang_model |-> TRUE, dirname |-> <<>>]}

\* prefixed_href of _xccdf_policy_cpe_check_cb: "%s/%s" of the dirname of the
\* dictionary's origin file and the href, the href itself for a language
\* model.
prefixed_href(usr, href) ==
    IF usr.dict THEN usr.dirname \o href
    ELSE IF usr.lang_model THEN href
    ELSE <<>>

\* model->cpe_oval_sessions after oval_definition_model_import has returned
\* NULL for the key (lines 839-844): the callback returns before it creates
\* or adds a session.
import_failed_Cached(sessions, key) == oscap_htable_add(sessions, key, 0)

import_failed(sessions, key) == sessions

CpeInit ==
    /\ pc = "cpe"
    /\ bm_selected = AllSelected
    /\ profile_selects = <<>>
    /\ cpe = NoCpe
    /\ callbacks = NoCallbacks
    /\ selects = <<>>
    /\ ht_selects = NoTable
    /\ sel_it = 0
    /\ result = NoResult
    /\ policy_results = <<>>
    /\ retval = NotReturned
    /\ cur = NoCur
    /\ trace = <<>>
    /\ op = [sessions |-> <<>>, created |-> 0, calls |-> 0, ret |-> FALSE]

\* One call of _xccdf_policy_cpe_check_cb(system, href, name, usr), made for
\* some Policy of the model; loads is whether oval_definition_model_import
\* gives a model this time, definition_true whether the definition evaluates
\* to OVAL_RESULT_TRUE.
CpeCheckCb ==
    /\ pc = "cpe"
    /\ op.calls < MaxCpeCalls
    /\ \E usr \in CpeUsrs, href \in CpeHrefs, policy \in {"policy1", "policy2"},
          loads \in BOOLEAN, definition_true \in BOOLEAN :
          LET key == prefixed_href(usr, href)
              cached == key \in DOMAIN op.sessions
              import == [kind |-> "import", href |-> key, ok |-> loads]
              eval(sess) == [kind |-> "cpe_eval", href |-> key, session |-> sess,
                             policy |-> policy]
          IN  IF cached
              THEN /\ trace' = Append(trace, eval(op.sessions[key]))
                   /\ op' = [op EXCEPT !.calls = @ + 1, !.ret = definition_true]
              ELSE IF ~loads
              THEN /\ trace' = Append(trace, import)
                   /\ op' = [op EXCEPT !.sessions = import_failed(@, key),
                                       !.calls = @ + 1, !.ret = FALSE]
              ELSE /\ trace' = trace \o <<import, eval(op.created + 1)>>
                   /\ op' = [op EXCEPT
                                !.sessions = oscap_htable_add(@, key, op.created + 1),
                                !.created = @ + 1,
                                !.calls = @ + 1,
                                !.ret = definition_true]
    /\ UNCHANGED <<pc, bm_selected, profile_selects, cpe, callbacks, selects, ht_selects,
                   sel_it, result, policy_results, retval, cur>>

CpeNext == CpeCheckCb

CpeSpec == CpeInit /\ [][CpeNext]_vars

(***************************************************************************)
(* The C type float of the score structures (lines 153-171): a value that  *)
(* is not negative is m * 2^e with m = 0 and e = 0, or with FloatBits      *)
(* significant bits in m.  Every operation rounds its exact result to the  *)
(* nearest such value, ties to the even m.  Exponents are not bounded: no  *)
(* weight or score of the model comes near the ends of the range.          *)
(***************************************************************************)
FloatBits == 24

FloatZero == [m |-> 0, e |-> 0]

RECURSIVE FloatWiden(_, _)
\* m * 2^e for 0 < m < 2^FloatBits with the significant bits filled: exact.
FloatWiden(m, e) ==
    IF m >= 2 ^ (FloatBits - 1) THEN [m |-> m, e |-> e] ELSE FloatWiden(2 * m, e - 1)

RECURSIVE DroppedBits(_)
\* How many low bits m has above FloatBits.
DroppedBits(m) == IF m < 2 ^ FloatBits THEN 0 ELSE 1 + DroppedBits(m \div 2)

\* m * 2^e, m > 0, rounded to the nearest float, ties to even.
FloatRound(m, e) ==
    LET k == DroppedBits(m)
        q == m \div (2 ^ k)
        r == m % (2 ^ k)
        up == k > 0 /\ (2 * r > 2 ^ k \/ (2 * r = 2 ^ k /\ q % 2 = 1))
        q1 == IF up THEN q + 1 ELSE q
    IN  IF k = 0 THEN FloatWiden(m, e)
        ELSE IF q1 = 2 ^ FloatBits THEN [m |-> 2 ^ (FloatBits - 1), e |-> e + k + 1]
        ELSE [m |-> q1, e |-> e + k]

\* The float of a natural number below 2^FloatBits.
Float(n) == IF n = 0 THEN FloatZero ELSE FloatWiden(n, 0)

RECURSIVE FloatOdd(_)
\* The same value with the trailing zero bits of m moved into e.
FloatOdd(x) ==
    IF x.m = 0 \/ x.m % 2 = 1 THEN x ELSE FloatOdd([m |-> x.m \div 2, e |-> x.e + 1])

\* x * y in float.
FloatMul(x, y) ==
    IF x.m = 0 \/ y.m = 0 THEN FloatZero
    ELSE FloatRound(FloatOdd(x).m * FloatOdd(y).m, FloatOdd(x).e + FloatOdd(y).e)

\* x + y in float.
FloatAdd(x, y) ==
    IF x.m = 0 THEN y
    ELSE IF y.m = 0 THEN x
    ELSE LET a == FloatOdd(x)
             b == FloatOdd(y)
             e == IF a.e < b.e THEN a.e ELSE b.e
         IN  FloatRound(a.m * 2 ^ (a.e - e) + b.m * 2 ^ (b.e - e), e)

RECURSIVE LongDivision(_, _, _, _)
\* bits more bits of the quotient q, remainder r of the division by d; the
\* last bit of the result says whether the division left a remainder.
LongDivision(q, r, d, bits) ==
    IF bits = 0 THEN 2 * q + (IF r = 0 THEN 0 ELSE 1)
    ELSE IF 2 * r >= d
         THEN LongDivision(2 * q + 1, 2 * r - d, d, bits - 1)
         ELSE LongDivision(2 * q, 2 * r, d, bits - 1)

\* x / y in float, for y that is not zero.
FloatDiv(x, y) ==
    IF x.m = 0 THEN FloatZero
    ELSE FloatRound(LongDivision(x.m \div y.m, x.m % y.m, y.m, FloatBits + 1),
                    x.e - y.e - (FloatBits + 2))

\* x <= y
FloatLe(x, y) ==
    \/ x.m = 0
    \/ y.m # 0 /\ (x.e < y.e \/ (x.e = y.e /\ x.m <= y.m))

(***************************************************************************)
(* Scoring: xccdf_item_get_default_score, xccdf_item_get_flat_score and    *)
(* xccdf_policy_get_score.  A tree is what the functions read of the       *)
(* Benchmark and of the TestResult: the content and the weight of each     *)
(* item, and the result of each Rule's rule-result (NoRuleResult when the  *)
(* TestResult holds none for the Rule).                                    *)
(***************************************************************************)
XCCDF_RESULT_FIXED == 9
NoRuleResult == 0

\* Informational rules counted like any rule that does not pass.
IgnoredKinds_NotInformational ==
    {XCCDF_RESULT_NOT_SELECTED, XCCDF_RESULT_NOT_APPLICABLE, XCCDF_RESULT_NOT_CHECKED}

\* The kinds the scoring functions ignore.
IgnoredKinds ==
    {XCCDF_RESULT_NOT_SELECTED, XCCDF_RESULT_NOT_APPLICABLE,
     XCCDF_RESULT_INFORMATIONAL, XCCDF_RESULT_NOT_CHECKED}

\* The return value NULL of the two recursive functions.
NullScore == [null |-> TRUE]

RECURSIVE xccdf_item_get_default_score(_, _)
RECURSIVE default_score_children(_, _, _, _)
\* The while loop of xccdf_item_get_default_score over the content of a Group
\* or of the Benchmark, from child i on.
default_score_children(tree, children, i, score) ==
    IF i > Len(children) THEN score
    ELSE LET ch_score == xccdf_item_get_default_score(tree, children[i])
         IN  IF ch_score.null \/ ch_score.count = 0
             THEN default_score_children(tree, children, i + 1, score)
             ELSE default_score_children(tree, children, i + 1,
                      [score EXCEPT
                          !.score = FloatAdd(@, ch_score.weight_score),
                          !.count = @ + 1,
                          !.accumulator = FloatAdd(@, tree.weight[children[i]])])

\* The sum of the weighted scores left as it is.
default_score_normalize_Sum(score) == score.score

\* "Normalize" of xccdf_item_get_default_score.
default_score_normalize(score) ==
    IF score.count # 0 /\ score.accumulator.m # 0
    THEN FloatDiv(score.score, score.accumulator)
    ELSE score.score

\* xccdf_item_get_default_score(item, test_result)
xccdf_item_get_default_score(tree, item) ==
    IF item \in Rules
    THEN IF tree.result[item] = NoRuleResult \/ tree.result[item] \in IgnoredKinds
         THEN NullScore
         ELSE LET score == IF tree.result[item] \in {XCCDF_RESULT_PASS, XCCDF_RESULT_FIXED}
                           THEN Float(100) ELSE FloatZero
              IN  [null |-> FALSE, count |-> 1, score |-> score,
                   accumulator |-> FloatZero,
                   weight_score |-> FloatMul(score, tree.weight[item])]
    ELSE IF item \in Groups \cup {BENCHMARK}
    THEN LET folded == default_score_children(tree, tree.content[item], 1,
                           [null |-> FALSE, count |-> 0, score |-> FloatZero,
                            accumulator |-> FloatZero, weight_score |-> FloatZero])
             score == default_score_normalize(folded)
         IN  [folded EXCEPT !.score = score,
                            !.weight_score = FloatMul(score, tree.weight[item])]
    ELSE NullScore

RECURSIVE xccdf_item_get_flat_score(_, _, _)
RECURSIVE flat_score_children(_, _, _, _, _)
\* The while loop of xccdf_item_get_flat_score, from child i on.
flat_score_children(tree, children, i, unweighted, score) ==
    IF i > Len(children) THEN score
    ELSE LET ch_score == xccdf_item_get_flat_score(tree, children[i], unweighted)
         IN  IF ch_score.null \/ ch_score.weight.m = 0
             THEN flat_score_children(tree, children, i + 1, unweighted, score)
             ELSE flat_score_children(tree, children, i + 1, unweighted,
                      [score EXCEPT !.score = FloatAdd(@, ch_score.score),
                                    !.weight = FloatAdd(@, ch_score.weight)])

\* xccdf_item_get_flat_score(item, test_result, unweighted)
xccdf_item_get_flat_score(tree, item, unweighted) ==
    IF item \in Rules
    THEN IF tree.result[item] = NoRuleResult \/ tree.result[item] \in IgnoredKinds
         THEN NullScore
         ELSE LET weight == IF unweighted THEN Float(1) ELSE tree.weight[item]
              IN  [null |-> FALSE, weight |-> weight,
                   score |-> IF tree.result[item] \in {XCCDF_RESULT_PASS, XCCDF_RESULT_FIXED}
                             THEN weight ELSE FloatZero]
    ELSE IF item \in Groups \cup {BENCHMARK}
    THEN flat_score_children(tree, tree.content[item], 1, unweighted,
             [null |-> FALSE, score |-> FloatZero, weight |-> FloatZero])
    ELSE NullScore

SCORING_DEFAULT == "urn:xccdf:scoring:default"
SCORING_FLAT == "urn:xccdf:scoring:flat"
SCORING_FLAT_UNWEIGHTED == "urn:xccdf:scoring:flat-unweighted"
SCORING_ABSOLUTE == "urn:xccdf:scoring:absolute"

\* The scoring systems xccdf_policy_get_score knows.
ScoringSystems ==
    {SCORING_DEFAULT, SCORING_FLAT, SCORING_FLAT_UNWEIGHTED, SCORING_ABSOLUTE}

\* A Score: has_maximum is whether xccdf_score_set_maximum was called.
Score(system, score, has_maximum, maximum) ==
    [null |-> FALSE, system |-> system, score |-> score,
     has_maximum |-> has_maximum, maximum |-> maximum]

\* A system that is not known scored as the default system.
xccdf_policy_get_score_DefaultForUnknown(tree, scsystem) ==
    Score(scsystem, xccdf_item_get_default_score(tree, BENCHMARK).score, FALSE, FloatZero)

\* xccdf_policy_get_score(policy, test_result, scsystem)
xccdf_policy_get_score(tree, scsystem) ==
    IF scsystem = SCORING_DEFAULT
    THEN Score(scsystem, xccdf_item_get_default_score(tree, BENCHMARK).score,
               FALSE, FloatZero)
    ELSE IF scsystem = SCORING_FLAT
    THEN LET item_score == xccdf_item_get_flat_score(tree, BENCHMARK, FALSE)
         IN  Score(scsystem, item_score.score, TRUE, item_score.weight)
    ELSE IF scsystem = SCORING_FLAT_UNWEIGHTED
    THEN LET item_score == xccdf_item_get_flat_score(tree, BENCHMARK, TRUE)
         IN  Score(scsystem, item_score.score, TRUE, item_score.weight)
    ELSE IF scsystem = SCORING_ABSOLUTE
    THEN LET item_score == xccdf_item_get_flat_score(tree, BENCHMARK, FALSE)
         IN  Score(scsystem,
                   IF item_score.score = item_score.weight THEN Float(1) ELSE FloatZero,
                   TRUE, item_score.weight)
    ELSE NullScore

(***************************************************************************)
(* xccdf_policy_get_score alone: one call for a TestResult over the        *)
(* Benchmark, for every choice of weights and of rule results.             *)
(***************************************************************************)
\* The weights 0.09 and 0.049 as the float nearest to them.
Weight_0_09 == [m |-> 12079596, e |-> -27]
Weight_0_049 == [m |-> 13153337, e |-> -28]

\* The weights of Rules and of the outer Group; the inner Group and the
\* Benchmark weigh 1.
TestRuleWeights == {Float(0), Float(1), Weight_0_09, Weight_0_049}
TestGroupWeights == {Float(0), Float(2)}

\* The results a rule-result holds, and none.
TestRuleResults ==
    {NoRuleResult, XCCDF_RESULT_PASS, XCCDF_RESULT_FAIL, XCCDF_RESULT_FIXED}
    \cup IgnoredKinds

\* The content of the Benchmark's items.
TreeContent ==
    [item \in Groups \cup {BENCHMARK} |->
        IF item = BENCHMARK THEN BenchmarkContent ELSE GroupContent(item)]

\* The content of a Benchmark that holds Rule r3 and nothing else.
SoleRuleContent ==
    [item \in Groups \cup {BENCHMARK} |-> IF item = BENCHMARK THEN <<"r3">> ELSE <<>>]

\* The Benchmarks whose only Rule is r3, with each weight and each result.
SoleRuleTrees ==
    {[content |-> SoleRuleContent,
      weight |-> [item \in Items \cup {BENCHMARK} |->
                     IF item = "r3" THEN w ELSE Float(1)],
      result |-> [rule \in Rules |-> IF rule = "r3" THEN res ELSE NoRuleResult]] :
        w \in TestRuleWeights, res \in TestRuleResults}

\* The Benchmark of the other specifications with each choice of weights and
\* of rule results.
FullTrees ==
    {[content |-> TreeContent,
      weight |-> [item \in Items \cup {BENCHMARK} |->
                     IF item \in Rules THEN rw[item]
                     ELSE IF item = "g1" THEN gw
                     ELSE Float(1)],
      result |-> res] :
        rw \in [Rules -> TestRuleWeights], gw \in TestGroupWeights,
        res \in [Rules -> TestRuleResults]}

TestTrees == FullTrees \cup SoleRuleTrees

\* Another URI than the four.
SCORING_OTHER == "urn:xccdf:scoring:other"

ScoreInit ==
    /\ pc = "score"
    /\ bm_selected = AllSelected
    /\ profile_selects = <<>>
    /\ cpe = NoCpe
    /\ callbacks = NoCallbacks
    /\ selects = <<>>
    /\ ht_selects = NoTable
    /\ sel_it = 0
    /\ result = NoResult
    /\ policy_results = <<>>
    /\ retval = NotReturned
    /\ cur = NoCur
    /\ trace = <<>>
    /\ op \in [tree : TestTrees, called : {FALSE}, scsystem : {NULL}, score : {NullScore}]

\* One call of xccdf_policy_get_score(policy, test_result, scsystem) and the
\* Score it returns.
GetScore ==
    /\ pc = "score"
    /\ ~op.called
    /\ \E scsystem \in ScoringSystems \cup {SCORING_OTHER} :
           op' = [op EXCEPT !.called = TRUE,
                            !.scsystem = scsystem,
                            !.score = xccdf_policy_get_score(op.tree, scsystem)]
    /\ UNCHANGED <<pc, bm_selected, profile_selects, cpe, callbacks, selects, ht_selects,
                   sel_it, result, policy_results, retval, cur, trace>>

ScoreNext == GetScore

ScoreSpec == ScoreInit /\ [][ScoreNext]_vars

(***************************************************************************)
(* The id of the TestResult: the first statements of xccdf_policy_evaluate *)
(* alone, lines 2137-2166.  A version is the list of the numbers between   *)
(* its dots: "1.2" is <<1, 2>>.                                            *)
(***************************************************************************)
MaxVersionPart == 2
MaxVersionParts == 3

RECURSIVE strverscmp_from(_, _, _)
\* strverscmp of two versions from part i on: the first part that differs
\* decides, by its number; a version that ends first is the smaller.
strverscmp_from(s1, s2, i) ==
    IF i > Len(s1) /\ i > Len(s2) THEN 0
    ELSE IF i > Len(s1) THEN -1
    ELSE IF i > Len(s2) THEN 1
    ELSE IF s1[i] < s2[i] THEN -1
    ELSE IF s1[i] > s2[i] THEN 1
    ELSE strverscmp_from(s1, s2, i + 1)

\* strverscmp(s1, s2): negative, zero or positive.
strverscmp(s1, s2) == strverscmp_from(s1, s2, 1)

\* The Profile of the Policy: none, one without id, or one with an id.
TestProfiles ==
    {[null |-> TRUE, id |-> NULL], [null |-> FALSE, id |-> NULL],
     [null |-> FALSE, id |-> "p1"],
     [null |-> FALSE, id |-> "xccdf_org.open-scap_profile_p"]}

\* The schema versions of the Benchmark.
TestVersions == UNION {[1 .. k -> 0 .. MaxVersionPart] : k \in 1 .. MaxVersionParts}

\* What is left of the TestResult id when the call has not set one.
NoRid == [set |-> FALSE, id |-> NULL, size |-> 0, written |-> 0]

IdInit ==
    /\ pc = "id"
    /\ bm_selected = AllSelected
    /\ profile_selects = <<>>
    /\ cpe = NoCpe
    /\ callbacks = NoCallbacks
    /\ selects = <<>>
    /\ ht_selects = NoTable
    /\ sel_it = 0
    /\ result = NoResult
    /\ policy_results = <<>>
    /\ retval = NotReturned
    /\ cur = NoCur
    /\ trace = <<>>
    /\ op \in [profile : TestProfiles, doc_version : TestVersions, rid : {NoRid}]

\* Lines 2137-2166 of xccdf_policy_evaluate: the id is built in the array rid
\* of size bytes, into which sprintf writes the prefix, the id and the
\* terminating zero.  A write past the end of the array is undefined: the id
\* is set as if the array were large enough, or the process ends.
SetTestResultId ==
    /\ pc = "id"
    /\ LET id == IF ~op.profile.null /\ op.profile.id # NULL
                 THEN op.profile.id ELSE "default-profile"
           enforced == strverscmp(<<1, 2>>, op.doc_version) >= 0
           prefix == IF enforced THEN "xccdf_org.open-scap_testresult_" ELSE "OSCAP-Test-"
           size == (IF enforced THEN 32 ELSE 11) + Len(id)
           written == Len(prefix \o id) + 1
       IN  \/ /\ pc' = "id_set"
              /\ op' = [op EXCEPT !.rid = [set |-> TRUE, id |-> prefix \o id,
                                           size |-> size, written |-> written]]
           \/ /\ written > size
              /\ pc' = "aborted"
              /\ op' = [op EXCEPT !.rid = [NoRid EXCEPT !.size = size,
                                                        !.written = written]]
    /\ UNCHANGED <<bm_selected, profile_selects, cpe, callbacks, selects, ht_selects,
                   sel_it, result, policy_results, retval, cur, trace>>

IdNext == SetTestResultId

IdSpec == IdInit /\ [][IdNext]_vars

(***************************************************************************)
(* Tailoring: xccdf_policy_tailor_item and xccdf_policy_resolve, over the  *)
(* items of a Benchmark and the refine-rules, setvalues and refine-values  *)
(* a Profile may carry.                                                    *)
(***************************************************************************)
MaxTailorRefineRules == 2
MaxTailorValues == 1

\* What a refine-rule without role, severity or weight attribute holds there.
ROLE_NOT_GIVEN == "<no role>"
SEVERITY_NOT_GIVEN == "<no severity>"
WEIGHT_NOT_GIVEN == "<no weight>"

\* The instance lists Value v1 may carry: a default instance and two with
\* a selector, of distinct values or two of them of the same value.
TailorInstances ==
    {<<[selector |-> NULL, value |-> "1", defval |-> NULL],
       [selector |-> "s1", value |-> "2", defval |-> NULL],
       [selector |-> "s2", value |-> "3", defval |-> NULL]>>,
     <<[selector |-> NULL, value |-> "1", defval |-> NULL],
       [selector |-> "s1", value |-> "2", defval |-> NULL],
       [selector |-> "s2", value |-> "2", defval |-> NULL]>>}

\* The items of the Benchmark: Rule r1, Group g1, Value v1 and the Benchmark
\* itself, an item of a type tailoring does not handle.
TailorItems(instances) ==
    [i \in {"r1", "g1", "v1", BENCHMARK} |->
        CASE i = "r1" -> [type |-> "XCCDF_RULE", role |-> "full", severity |-> "low",
                          weight |-> "1.0"]
          [] i = "g1" -> [type |-> "XCCDF_GROUP", weight |-> "1.0"]
          [] i = "v1" -> [type |-> "XCCDF_VALUE", oper |-> "equals",
                          instances |-> instances]
          [] OTHER -> [type |-> "XCCDF_BENCHMARK"]]

\* The refine-rules a Profile may carry: for Rule r1 with each attribute
\* given or not, for Group g1 with and without weight, and one for an id the
\* Benchmark does not have.
TailorRefineRules ==
    {[item |-> "r1", role |-> role, severity |-> severity,
      weight_defined |-> weight # WEIGHT_NOT_GIVEN, weight |-> weight] :
        role \in {ROLE_NOT_GIVEN, "unscored"},
        severity \in {SEVERITY_NOT_GIVEN, "high"},
        weight \in {WEIGHT_NOT_GIVEN, "2.0"}}
    \cup
    {[item |-> item, role |-> ROLE_NOT_GIVEN, severity |-> SEVERITY_NOT_GIVEN,
      weight_defined |-> weight # WEIGHT_NOT_GIVEN, weight |-> weight] :
        item \in {"g1"}, weight \in {WEIGHT_NOT_GIVEN, "2.0"}}
    \cup
    {[item |-> "r9", role |-> "unscored", severity |-> SEVERITY_NOT_GIVEN,
      weight_defined |-> FALSE, weight |-> WEIGHT_NOT_GIVEN]}

\* The setvalues a Profile may carry: for Value v1 the value of an instance
\* and a literal no instance has.
TailorSetvalues ==
    {[item |-> "v1", value |-> "2"], [item |-> "v1", value |-> "7"],
     [item |-> "v9", value |-> "9"]}

\* The refine-values a Profile may carry: for Value v1 the selector of each
\* of its instances, with and without an operator.
TailorRefineValues ==
    {[item |-> "v1", selector |-> NULL, oper |-> OPERATOR_NOT_GIVEN],
     [item |-> "v1", selector |-> "s1", oper |-> OPERATOR_NOT_GIVEN],
     [item |-> "v1", selector |-> "s1", oper |-> "less than"],
     [item |-> "v1", selector |-> "s2", oper |-> "less than"]}

\* What xccdf_policy_tailor_item and xccdf_policy_resolve return: the item
\* handed in, a new item, NULL, or a boolean.
NoCall == [fn |-> NULL, item |-> NULL, ret |-> NULL, new_item |-> <<>>]

\* xccdf_policy_get_value_of_item(policy, item) over the given setvalues and
\* refine-values and the item's instances: the value of the first setvalue
\* that names the item, else the value of the instance the first refine-value
\* that names it selects, else NULL.
get_value_of_item(setvalues, refine_values, id, instances) ==
    LET s_value == FirstMatch(setvalues, id)
        r_value == FirstMatch(refine_values, id)
    IN IF s_value # <<>> THEN s_value[1].value
       ELSE IF r_value # <<>>
       THEN LET m == {i \in DOMAIN instances :
                         instances[i].selector = r_value[1].selector}
            IN instances[CHOOSE i \in m : \A j \in m : i <= j].value
       ELSE NULL

\* xccdf_policy_get_refine_value_oper(policy, item): the operator of the
\* first refine-value that names the item, as a list of at most one operator
\* (empty for the return value -1).
get_refine_value_oper(refine_values, id) ==
    LET r_value == FirstMatch(refine_values, id)
    IN IF r_value # <<>> THEN <<r_value[1].oper>> ELSE <<>>

\* The selector the first loop of the XCCDF_VALUE case leaves: that of the
\* last instance whose value is the given one, NULL when there is none.
tailor_value_selector(instances, value) ==
    LET m == {i \in DOMAIN instances : instances[i].value = value}
    IN IF m = {} THEN NULL
       ELSE instances[CHOOSE i \in m : \A j \in m : j <= i].selector

\* The instances the second loop and the final test of the XCCDF_VALUE case
\* leave in the clone: those of the selector found, the default instance
\* being given the value as its defval when the selector is NULL.
tailor_value_instances(instances, value) ==
    LET selector == tailor_value_selector(instances, value)
        kept == SelectSeq(instances, LAMBDA inst : inst.selector = selector)
        m == {i \in DOMAIN kept : kept[i].selector = NULL}
        first == CHOOSE i \in m : \A j \in m : i <= j
    IN IF selector = NULL
       THEN [kept EXCEPT ![first].defval = value]
       ELSE kept

\* The new item of the XCCDF_RULE case for refine-rule r_rule: a clone with
\* role and severity set whenever isnan of the refine-rule's is false, and
\* weight set when the refine-rule defines one.
tailor_rule(item, r_rule) ==
    LET with_role == IF ~isnan(r_rule.role)
                     THEN [item EXCEPT !.role = r_rule.role] ELSE item
        with_severity == IF ~isnan(r_rule.severity)
                         THEN [with_role EXCEPT !.severity = r_rule.severity]
                         ELSE with_role
    IN IF r_rule.weight_defined
       THEN [with_severity EXCEPT !.weight = r_rule.weight]
       ELSE with_severity

\* xccdf_policy_tailor_item(policy, item) over the items of the Benchmark and
\* the Profile: what it returns ("item" for the item handed in, "new_item"
\* for the clone, NULL), the clone, and the items of the Benchmark afterwards.
tailor_item(items, refine_rules, setvalues, refine_values, id) ==
    LET item == items[id]
        r_rule == refine_rules_by_rule(refine_rules, id)
        unchanged == [ret |-> "item", new_item |-> <<>>, items |-> items]
    IN CASE item.type = "XCCDF_RULE" ->
              IF r_rule = <<>> THEN unchanged
              ELSE [ret |-> "new_item", new_item |-> <<tailor_rule(item, r_rule[1])>>,
                    items |-> items]
         [] item.type = "XCCDF_GROUP" ->
              IF r_rule = <<>> THEN unchanged
              ELSE IF r_rule[1].weight_defined
              THEN [ret |-> "new_item",
                    new_item |-> <<[item EXCEPT !.weight = r_rule[1].weight]>>,
                    items |-> items]
              ELSE unchanged
         [] item.type = "XCCDF_VALUE" ->
              LET value == get_value_of_item(setvalues, refine_values, id, item.instances)
                  oper == get_refine_value_oper(refine_values, id)
              IN IF value = NULL
                 THEN [ret |-> NULL, new_item |-> <<>>, items |-> items]
                 ELSE [ret |-> "new_item",
                       new_item |-> <<[item EXCEPT !.instances =
                                          tailor_value_instances(item.instances, value)]>>,
                       items |-> IF oper = <<>> THEN items
                                 ELSE [items EXCEPT ![id].oper = oper[1]]]
         [] OTHER -> [ret |-> NULL, new_item |-> <<>>, items |-> items]

\* The loop of xccdf_policy_resolve from refine-rule i on: the return value
\* and the items of the Benchmark afterwards.
RECURSIVE resolve_from(_, _, _)
resolve_from(items, refine_rules, i) ==
    IF i > Len(refine_rules) THEN [ret |-> TRUE, items |-> items]
    ELSE LET r_rule == refine_rules[i]
             id == r_rule.item
         IN IF id \notin DOMAIN items
            THEN [ret |-> FALSE, items |-> items]
            ELSE IF items[id].type = "XCCDF_GROUP"
            THEN IF r_rule.weight_defined
                 THEN [ret |-> FALSE, items |-> items]
                 ELSE resolve_from([items EXCEPT ![id].weight = r_rule.weight],
                                   refine_rules, i + 1)
            ELSE IF items[id].type = "XCCDF_RULE"
            THEN LET with_role ==
                         IF ~isnan(r_rule.role)
                         THEN [items EXCEPT ![id].role = r_rule.role] ELSE items
                     with_severity ==
                         IF ~isnan(r_rule.severity)
                         THEN [with_role EXCEPT ![id].severity = r_rule.severity]
                         ELSE with_role
                 IN resolve_from(with_severity, refine_rules, i + 1)
            ELSE resolve_from(items, refine_rules, i + 1)

\* xccdf_policy_resolve(policy)
xccdf_policy_resolve(items, refine_rules) == resolve_from(items, refine_rules, 1)

\* A Benchmark as loaded and a Policy of a Profile; no call made yet.
TailorInit ==
    /\ pc = "tailor"
    /\ bm_selected = AllSelected
    /\ profile_selects = <<>>
    /\ cpe = NoCpe
    /\ callbacks = NoCallbacks
    /\ selects = <<>>
    /\ ht_selects = NoTable
    /\ sel_it = 0
    /\ result = NoResult
    /\ policy_results = <<>>
    /\ retval = NotReturned
    /\ cur = NoCur
    /\ trace = <<>>
    /\ \E instances \in TailorInstances :
        op \in [items : {TailorItems(instances)},
                refine_rules : SeqUpTo(MaxTailorRefineRules, TailorRefineRules),
                setvalues : SeqUpTo(MaxTailorValues, TailorSetvalues),
                refine_values : SeqUpTo(MaxTailorValues, TailorRefineValues),
                before : {TailorItems(instances)}, call : {NoCall}]

\* A call xccdf_policy_tailor_item(policy, item) for an item of the
\* Benchmark; before holds the items of the Benchmark as the call found them.
TailorItem ==
    /\ pc = "tailor"
    /\ \E id \in DOMAIN op.items :
        LET t == tailor_item(op.items, op.refine_rules, op.setvalues,
                             op.refine_values, id)
        IN op' = [op EXCEPT !.items = t.items, !.before = op.items,
                            !.call = [fn |-> "xccdf_policy_tailor_item", item |-> id,
                                      ret |-> t.ret, new_item |-> t.new_item]]
    /\ UNCHANGED <<pc, bm_selected, profile_selects, cpe, callbacks, selects,
                   ht_selects, sel_it, result, policy_results, retval, cur, trace>>

\* A call xccdf_policy_resolve(policy).
Resolve ==
    /\ pc = "tailor"
    /\ LET r == xccdf_policy_resolve(op.items, op.refine_rules)
       IN op' = [op EXCEPT !.items = r.items, !.before = op.items,
                           !.call = [fn |-> "xccdf_policy_resolve", item |-> NULL,
                                     ret |-> IF r.ret THEN "true" ELSE "false",
                                     new_item |-> <<>>]]
    /\ UNCHANGED <<pc, bm_selected, profile_selects, cpe, callbacks, selects,
                   ht_selects, sel_it, result, policy_results, retval, cur, trace>>

TailorNext == TailorItem \/ Resolve

TailorSpec == TailorInit /\ [][TailorNext]_vars

(***************************************************************************)
(* The systems and files of a Benchmark:                                   *)
(* xccdf_policy_model_get_systems_and_files, over the checks the Rules of  *)
(* the Benchmark may carry.                                                *)
(***************************************************************************)
\* xccdf_benchmark_get_content and xccdf_group_get_content: the Rules and
\* Groups of the Benchmark, in document order.
FilesContent ==
    [item \in Groups \cup {BENCHMARK} |->
        CASE item = BENCHMARK -> <<"g1", "r3">>
          [] item = "g1" -> <<"r1", "g2">>
          [] item = "g2" -> <<"r2">>]

\* A simple check of the given system with content-refs of the given hrefs.
FilesCheck(system, hrefs) ==
    SimpleCheck(system, NULL, FALSE, FALSE,
                [i \in DOMAIN hrefs |-> ContentRef(hrefs[i], NULL)], <<>>)

\* The lists of checks a Rule may carry.
TestFilesChecks ==
    {<<>>,
     <<FilesCheck("oval", <<"a.xml">>)>>,
     <<FilesCheck("oval", <<"b.xml", "a.xml", "b.xml">>)>>,
     <<FilesCheck("sce", <<"a.xml">>), FilesCheck("oval", <<"a.xml">>)>>,
     <<ComplexCheck(XCCDF_OPERATOR_AND, FALSE,
          <<FilesCheck("oval", <<"c.xml">>),
            ComplexCheck(XCCDF_OPERATOR_OR, FALSE,
               <<FilesCheck("oval", <<"a.xml">>), FilesCheck("oval", <<"c.xml">>)>>)>>),
       FilesCheck("sce", <<"c.xml">>)>>,
     <<ComplexCheck(XCCDF_OPERATOR_AND, FALSE, <<>>)>>}

\* xccdf_file_entry_cmp_func(e1, e2)
xccdf_file_entry_cmp_func(e1, e2) ==
    e1.system_name = e2.system_name /\ e1.file = e2.file

\* The entry added to the list unless oscap_list_contains finds it there.
files_add_Always(files, file_entry) == Append(files, file_entry)

files_add(files, file_entry) ==
    IF \E i \in DOMAIN files : xccdf_file_entry_cmp_func(files[i], file_entry)
    THEN files
    ELSE Append(files, file_entry)

\* The entries of sub_files from entry i on, added to files one by one.
RECURSIVE files_merge_from(_, _, _)
files_merge_from(files, sub_files, i) ==
    IF i > Len(sub_files) THEN files
    ELSE files_merge_from(files_add(files, sub_files[i]), sub_files, i + 1)

\* xccdf_check_get_systems_and_files(check): from_child and from_ref are the
\* two loops, from child i and from content-ref i on.
RECURSIVE xccdf_check_get_systems_and_files(_)
xccdf_check_get_systems_and_files(check) ==
    LET RECURSIVE from_child(_, _)
        from_child(files, i) ==
            IF i > Len(check.children) THEN files
            ELSE from_child(
                    files_merge_from(files,
                        xccdf_check_get_systems_and_files(check.children[i]), 1),
                    i + 1)
        RECURSIVE from_ref(_, _)
        from_ref(files, i) ==
            IF i > Len(check.content_refs) THEN files
            ELSE from_ref(files_add(files, [system_name |-> check.system,
                                            file |-> check.content_refs[i].href]),
                          i + 1)
    IN IF check.complex THEN from_child(<<>>, 1) ELSE from_ref(<<>>, 1)

\* xccdf_item_get_systems_and_files(item) for a Rule, a Group or the
\* Benchmark, checks giving the checks of each Rule.
RECURSIVE xccdf_item_get_systems_and_files(_, _)
xccdf_item_get_systems_and_files(checks, item) ==
    LET subs == IF item \in Rules
                THEN [i \in DOMAIN checks[item] |->
                         xccdf_check_get_systems_and_files(checks[item][i])]
                ELSE [i \in DOMAIN FilesContent[item] |->
                         xccdf_item_get_systems_and_files(checks, FilesContent[item][i])]
        RECURSIVE from_sub(_, _)
        from_sub(files, i) ==
            IF i > Len(subs) THEN files
            ELSE from_sub(files_merge_from(files, subs[i], 1), i + 1)
    IN from_sub(<<>>, 1)

\* xccdf_policy_model_get_systems_and_files(policy_model)
xccdf_policy_model_get_systems_and_files(checks) ==
    xccdf_item_get_systems_and_files(checks, BENCHMARK)

\* A Benchmark whose Rules carry checks; the list has not been asked for.
FilesInit ==
    /\ pc = "files"
    /\ bm_selected = AllSelected
    /\ profile_selects = <<>>
    /\ cpe = NoCpe
    /\ callbacks = NoCallbacks
    /\ selects = <<>>
    /\ ht_selects = NoTable
    /\ sel_it = 0
    /\ result = NoResult
    /\ policy_results = <<>>
    /\ retval = NotReturned
    /\ cur = NoCur
    /\ trace = <<>>
    /\ op \in [checks : [Rules -> TestFilesChecks], called : {FALSE}, files : {<<>>}]

\* One call of xccdf_policy_model_get_systems_and_files(policy_model).
GetSystemsAndFiles ==
    /\ pc = "files"
    /\ ~op.called
    /\ op' = [op EXCEPT !.called = TRUE,
                        !.files = xccdf_policy_model_get_systems_and_files(op.checks)]
    /\ UNCHANGED <<pc, bm_selected, profile_selects, cpe, callbacks, selects, ht_selects,
                   sel_it, result, policy_results, retval, cur, trace>>

FilesNext == GetSystemsAndFiles

FilesSpec == FilesInit /\ [][FilesNext]_vars

(***************************************************************************)
(* The result algebra against its description.                             *)
(***************************************************************************)
\* The skip kinds: NotApplicable, NotChecked, NotSelected, Informational.
SkipKinds == XCCDF_RESULT_NOT_APPLICABLE .. XCCDF_RESULT_INFORMATIONAL

\* The one of two kinds that ranks first: rank 1 is Pass, rank 8 Informational.
FirstByRank(x, y) == IF x <= y THEN x ELSE y

\* And as described: Fail if either is Fail, else Error if either is Error,
\* else Unknown if either is Unknown, else Pass if both are Pass, else the
\* one of Pass and the skip kinds that ranks first.
ReferenceAnd(x, y) ==
    IF XCCDF_RESULT_FAIL \in {x, y} THEN XCCDF_RESULT_FAIL
    ELSE IF XCCDF_RESULT_ERROR \in {x, y} THEN XCCDF_RESULT_ERROR
    ELSE IF XCCDF_RESULT_UNKNOWN \in {x, y} THEN XCCDF_RESULT_UNKNOWN
    ELSE IF x = XCCDF_RESULT_PASS /\ y = XCCDF_RESULT_PASS THEN XCCDF_RESULT_PASS
    ELSE FirstByRank(x, y)

\* Or as described, the dual of And: Pass if either is Pass, else Error if
\* either is Error, else Unknown if either is Unknown, else Fail if either is
\* Fail, else the skip kind that ranks first.
ReferenceOr(x, y) ==
    IF XCCDF_RESULT_PASS \in {x, y} THEN XCCDF_RESULT_PASS
    ELSE IF XCCDF_RESULT_ERROR \in {x, y} THEN XCCDF_RESULT_ERROR
    ELSE IF XCCDF_RESULT_UNKNOWN \in {x, y} THEN XCCDF_RESULT_UNKNOWN
    ELSE IF XCCDF_RESULT_FAIL \in {x, y} THEN XCCDF_RESULT_FAIL
    ELSE FirstByRank(x, y)

\* C11 as claimed: on Pass..Informational the And table equals the described
\* And and the Or table the described Or.
C11_TablesEqualReference ==
    (op.value # -1 /\ op.A \in ResultKinds /\ op.B \in ResultKinds) =>
        op.value = IF op.oper = XCCDF_OPERATOR_AND
                   THEN ReferenceAnd(op.A, op.B)
                   ELSE ReferenceOr(op.A, op.B)

\* C12 as claimed: for every kind X and every skip kind S of rank strictly
\* greater than X's, And(X, S) = And(S, X) = X and Or(X, S) = Or(S, X) = X.
C12_SkipAbsorbed ==
    op.value # -1 =>
        /\ (op.A \in ResultKinds /\ op.B \in SkipKinds /\ op.B > op.A) => op.value = op.A
        /\ (op.B \in ResultKinds /\ op.A \in SkipKinds /\ op.A > op.B) => op.value = op.B

\* Negate as a check with its negate flag set applies it.
Negate(x) == _resolve_negate(x, [negate |-> TRUE])

\* C13: with the negate flag set Negate maps Pass to Fail, Fail to Pass and
\* every other value to itself, so that Negate(Negate(x)) = x; with the flag
\* unset the value is returned unchanged.
C13_Negate ==
    op.negated # -1 =>
        IF op.negate
        THEN /\ op.value = XCCDF_RESULT_PASS => op.negated = XCCDF_RESULT_FAIL
             /\ op.value = XCCDF_RESULT_FAIL => op.negated = XCCDF_RESULT_PASS
             /\ op.value \notin {XCCDF_RESULT_PASS, XCCDF_RESULT_FAIL} =>
                    op.negated = op.value
             /\ op.negated = Negate(op.value)
             /\ Negate(op.negated) = op.value
        ELSE op.negated = op.value

\* A Pass negated to Fail by a check whose negate flag is set.
C13_Witness ==
    /\ op.negate
    /\ op.value = XCCDF_RESULT_PASS
    /\ op.negated = XCCDF_RESULT_FAIL

(***************************************************************************)
(* Negation, engines and content-refs in the evaluation of one check.      *)
(***************************************************************************)
\* The eval events of the trace.
EvalEvents == {k \in DOMAIN trace : trace[k].ev = "eval"}

\* What the dispatch of a content-ref yielded: the value other than NotChecked
\* an engine returned for it, NotChecked when none did.
DispatchYield(content) ==
    LET hits == {k \in EvalEvents : /\ trace[k].href = content.href
                                    /\ trace[k].name = content.name
                                    /\ trace[k].ret # XCCDF_RESULT_NOT_CHECKED}
    IN IF hits = {} THEN XCCDF_RESULT_NOT_CHECKED
       ELSE trace[CHOOSE k \in hits : TRUE].ret

\* The value of a simple check before negation: the yield of its first
\* content-ref that yielded something else than NotChecked.
SimpleYield(check) ==
    LET hits == {i \in DOMAIN check.content_refs :
                    DispatchYield(check.content_refs[i]) # XCCDF_RESULT_NOT_CHECKED}
    IN IF hits = {} THEN XCCDF_RESULT_NOT_CHECKED
       ELSE DispatchYield(check.content_refs[CHOOSE i \in hits : \A j \in hits : i <= j])

\* The left fold of the values vals with the operator oper.
RECURSIVE FoldLeft(_, _, _)
FoldLeft(vals, oper, n) ==
    IF n = 1 THEN vals[1]
    ELSE _resolve_operation(FoldLeft(vals, oper, n - 1), vals[n], oper)

\* The value of a check when every check of the tree applies its own negate
\* flag once, to its own value.
RECURSIVE NegatedPerCheck(_)
NegatedPerCheck(check) ==
    IF check.complex
    THEN _resolve_negate(
             FoldLeft([i \in DOMAIN check.children |-> NegatedPerCheck(check.children[i])],
                      check.oper, Len(check.children)),
             check)
    ELSE _resolve_negate(SimpleYield(check), check)

\* The value of a check when only the root applies its negate flag and the
\* values of the checks nested in it are combined as the engines gave them.
RECURSIVE Unnegated(_)
Unnegated(check) ==
    IF check.complex
    THEN FoldLeft([i \in DOMAIN check.children |-> Unnegated(check.children[i])],
                  check.oper, Len(check.children))
    ELSE SimpleYield(check)

NegatedAtRootOnly(check) == _resolve_negate(Unnegated(check), check)

\* The check has something to evaluate: content-refs for a simple check,
\* children that have something to evaluate for a complex one.
RECURSIVE HasContent(_)
HasContent(check) ==
    IF check.complex
    THEN /\ check.children # <<>>
         /\ \A i \in DOMAIN check.children : HasContent(check.children[i])
    ELSE check.content_refs # <<>>

\* The RuleResults that carry the value of an evaluated check with something
\* to evaluate.
EvaluatedResults ==
    {i \in DOMAIN result.rule_results :
        LET rr == result.rule_results[i]
        IN /\ rr.check # NoCheck
           /\ rr.message # "No definitions found for @multi-check."
           /\ rr.message # "Value bindings not found."
           /\ HasContent(rr.check[1])}

\* C14 amended: on every evaluation path (rule-level simple check, rule-level
\* complex check, multi-check clone) each check applies its own negate flag
\* exactly once, to its own value: the root to the value reported, and every
\* check nested in a complex check to the value it contributes to the
\* combination.
C14_NegateOncePerCheck ==
    \A i \in EvaluatedResults :
        result.rule_results[i].result = NegatedPerCheck(result.rule_results[i].check[1])

\* C14 as claimed: Negate is applied once, at the root of the check evaluated,
\* and never to the values of the checks nested in a complex check.
C14_NegateAtRootOnly ==
    \A i \in EvaluatedResults :
        result.rule_results[i].result = NegatedAtRootOnly(result.rule_results[i].check[1])

\* A complex check with its negate flag set, whose second child has its flag
\* set too and was given Pass by the engine, has been evaluated.
C14_Witness ==
    \E i \in EvaluatedResults :
        LET check == result.rule_results[i].check[1]
        IN /\ check.complex /\ check.negate
           /\ check.children[2].negate
           /\ SimpleYield(check.children[2]) = XCCDF_RESULT_PASS
           /\ SimpleYield(check.children[1]) = XCCDF_RESULT_PASS
           /\ result.rule_results[i].result = XCCDF_RESULT_PASS

\* Two eval events belong to the dispatch of one content-ref.
SameDispatch(j, k) ==
    /\ j \in EvalEvents /\ k \in EvalEvents
    /\ trace[j].rule = trace[k].rule
    /\ trace[j].href = trace[k].href
    /\ trace[j].name = trace[k].name

\* The eval events of the dispatch of a content-ref.
CallsFor(content) ==
    {k \in EvalEvents : trace[k].href = content.href /\ trace[k].name = content.name}

\* C15: when a content-ref is dispatched the engines registered for the
\* check's system are called in registration order; the first value other
\* than NotChecked is final and no later engine is called; when every engine
\* returns NotChecked, or none is registered, the dispatch yields NotChecked.
C15_EnginesInOrder ==
    LET n == Len(_xccdf_policy_get_callbacks_by_sysname("oval"))
    IN /\ \A k \in EvalEvents :
            /\ trace[k].engine \in 1 .. n
            /\ trace[k].engine > 1 =>
                   /\ SameDispatch(k - 1, k)
                   /\ trace[k - 1].engine = trace[k].engine - 1
                   /\ trace[k - 1].ret = XCCDF_RESULT_NOT_CHECKED
            /\ (trace[k].ret = XCCDF_RESULT_NOT_CHECKED /\ trace[k].engine < n) =>
                   /\ SameDispatch(k, k + 1)
                   /\ trace[k + 1].engine = trace[k].engine + 1
            /\ trace[k].ret # XCCDF_RESULT_NOT_CHECKED => ~SameDispatch(k, k + 1)
       /\ \A i \in EvaluatedResults :
            LET rr == result.rule_results[i]
                calls == CallsFor(rr.check[1].content_refs[1])
                last == CHOOSE k \in calls : \A j \in calls : j <= k
            IN (~rr.check[1].complex /\ Len(rr.check[1].content_refs) = 1) =>
                   rr.result = _resolve_negate(
                                   IF calls = {} THEN XCCDF_RESULT_NOT_CHECKED
                                   ELSE trace[last].ret,
                                   rr.check[1])

\* With two engines registered, the first returned NotChecked for a
\* content-ref, the second Fail, and Fail is the value reported.
C15_Witness ==
    /\ \E k \in EvalEvents :
          /\ trace[k].engine = 2
          /\ trace[k].ret = XCCDF_RESULT_FAIL
          /\ SameDispatch(k - 1, k)
          /\ trace[k - 1].ret = XCCDF_RESULT_NOT_CHECKED
    /\ \E i \in EvaluatedResults :
          /\ ~result.rule_results[i].check[1].complex
          /\ result.rule_results[i].result = XCCDF_RESULT_FAIL

\* The position of the content-ref of an eval event among TestRefs.
RefIndex(k) == CHOOSE i \in DOMAIN TestRefs : TestRefs[i].href = trace[k].href

\* The RuleResults of simple checks that went through the loop over
\* content-refs at the level of the rule.
SimpleResults ==
    {i \in DOMAIN result.rule_results :
        LET rr == result.rule_results[i]
        IN /\ rr.check # NoCheck
           /\ ~rr.check[1].complex
           /\ ~rr.check[1].multicheck
           /\ rr.message # "Value bindings not found."}

\* C16 as claimed: the content-refs of a simple check are tried in
\* declaration order; the first whose dispatch returns something else than
\* NotChecked ends the iteration and is the one pinned in the clone attached
\* to the RuleResult; if all content-refs yield NotChecked, or there are none,
\* the final value is NotChecked.
C16_ContentRefsInOrder ==
    \A i \in SimpleResults :
        LET rr == result.rule_results[i]
        IN /\ \A j \in EvalEvents, k \in EvalEvents :
                  j <= k => RefIndex(j) <= RefIndex(k)
           /\ \A k \in EvalEvents :
                  trace[k].ret # XCCDF_RESULT_NOT_CHECKED =>
                      /\ \A j \in EvalEvents : j <= k
                      /\ rr.check[1].content_refs =
                             <<ContentRef(trace[k].href, trace[k].name)>>
                      /\ rr.result = _resolve_negate(trace[k].ret, rr.check[1])
           /\ (\A k \in EvalEvents : trace[k].ret = XCCDF_RESULT_NOT_CHECKED) =>
                  /\ rr.result = XCCDF_RESULT_NOT_CHECKED
                  /\ \A c \in DOMAIN rr.check[1].content_refs :
                         Len(_xccdf_policy_get_callbacks_by_sysname("oval")) > 0 =>
                             CallsFor(rr.check[1].content_refs[c]) # {}

(***************************************************************************)
(* Multi-check.                                                            *)
(***************************************************************************)
\* The names queries of the trace.
QueryEvents == {k \in DOMAIN trace : trace[k].ev = "query"}

\* The last event of the evaluation of the Rule that made the query q, or the
\* last before the next query.
SegmentEnd(q) ==
    LET later == {k \in q + 1 .. Len(trace) :
                     trace[k].ev = "query" \/ trace[k].rule # trace[q].rule}
    IN IF later = {} THEN Len(trace)
       ELSE (CHOOSE k \in later : \A j \in later : k <= j) - 1

\* The RuleResults appended after the query q in the same evaluation of the
\* Rule.
ResultsOfQuery(q) == {k \in ResultEvents : q < k /\ k <= SegmentEnd(q)}

\* The value of the engine calls between two trace positions: the first
\* other than NotChecked, NotChecked if there is none.
YieldBetween(from, to) ==
    LET hits == {k \in EvalEvents : from < k /\ k < to
                                    /\ trace[k].ret # XCCDF_RESULT_NOT_CHECKED}
    IN IF hits = {} THEN XCCDF_RESULT_NOT_CHECKED
       ELSE trace[CHOOSE k \in hits : \A j \in hits : k <= j].ret

\* C17: when the names query of a multi-check Rule returns N >= 1 names and
\* no hook returns non-zero, exactly N RuleResults are emitted for the query,
\* all with the Rule's idref, the n-th carrying the clone pinned to the
\* content-ref and the n-th name and the value of evaluating that clone; the
\* start hooks fire once before the query and once between each two
\* consecutive names, N times in all.
C17_MultiCheckPerName ==
    RanToCompletion =>
        \A q \in QueryEvents :
            trace[q].ret > 0 =>
                LET N == trace[q].ret
                    res == ResultsOfQuery(q)
                    nth(k) == 1 + Cardinality({j \in res : j < k})
                    prev(k) == IF nth(k) = 1 THEN q
                               ELSE CHOOSE j \in res : j < k /\ nth(j) = nth(k) - 1
                    hooks == Len(callbacks[START_URI])
                IN /\ Cardinality(res) = N
                   /\ \A k \in res :
                        LET rr == RuleResults[trace[k].rr]
                        IN /\ rr.idref = trace[q].rule
                           /\ rr.check # NoCheck
                           /\ rr.check[1].content_refs =
                                  <<ContentRef(trace[q].href, DefNames[nth(k)])>>
                           /\ \A j \in EvalEvents :
                                  (prev(k) < j /\ j < k) =>
                                      /\ trace[j].href = trace[q].href
                                      /\ trace[j].name = DefNames[nth(k)]
                           /\ rr.result = _resolve_negate(YieldBetween(prev(k), k),
                                                          rr.check[1])
                           /\ Cardinality({j \in prev(k) + 1 .. k - 1 :
                                              trace[j].ev = START_URI}) =
                                  IF nth(k) = 1 THEN 0 ELSE hooks
                   /\ hooks = 1 => /\ q > 1
                                   /\ trace[q - 1].ev = START_URI
                                   /\ trace[q - 1].rule = trace[q].rule

\* With a start hook registered, a names query was answered with two names
\* and the evaluation ran to completion with a RuleResult for each name.
C17_Witness ==
    /\ RanToCompletion
    /\ Len(callbacks[START_URI]) = 1
    /\ \E q \in QueryEvents :
          /\ trace[q].ret = 2
          /\ Cardinality(ResultsOfQuery(q)) = 2
          /\ \E k \in ResultsOfQuery(q) :
                RuleResults[trace[k].rr].check[1].content_refs =
                    <<ContentRef(trace[q].href, DefNames[2])>>

RefinedSelector ==
    LET m == {i \in DOMAIN op.refine_rules : op.refine_rules[i].item = op.rule}
    IN IF m = {} THEN NULL
       ELSE op.refine_rules[CHOOSE i \in m : \A j \in m : i <= j].selector

\* The positions of the simple checks that carry the selector.
WithSelector(selector) == {i \in DOMAIN op.checks : op.checks[i].selector = selector}

\* The positions of the candidates: the simple checks whose selector is the
\* refined one or, when that is not NULL and no check carries it, the simple
\* checks without a selector.
Candidates ==
    IF RefinedSelector # NULL /\ WithSelector(RefinedSelector) = {}
    THEN WithSelector(NULL)
    ELSE WithSelector(RefinedSelector)

\* The candidates whose system has a registered engine.
RegisteredCandidates ==
    {i \in Candidates : _xccdf_policy_is_engine_registered(op.checks[i].system)}

\* C19: the check chosen for a Rule is its first complex check if it has one;
\* otherwise the last candidate in declaration order whose system has a
\* registered engine, and no check if no candidate has one.
C19_ApplicableCheck ==
    op.chosen =>
        IF op.complex_checks # <<>>
        THEN op.value = <<op.complex_checks[1]>>
        ELSE IF RegisteredCandidates = {}
        THEN op.value = NoCheck
        ELSE op.value = <<op.checks[CHOOSE i \in RegisteredCandidates :
                                       \A j \in RegisteredCandidates : j <= i]>>

\* The refined selector matches no check, two checks without selector have a
\* registered engine, and the later of the two was chosen.
C19_Witness ==
    /\ op.chosen
    /\ op.complex_checks = <<>>
    /\ Len(op.checks) = 3
    /\ RefinedSelector = "s2"
    /\ Cardinality(RegisteredCandidates) = 2
    /\ op.value = <<op.checks[3]>>
    /\ op.checks[3].selector = NULL

(***************************************************************************)
(* Value bindings.                                                         *)
(***************************************************************************)
\* The positions of the entries of a list of the Profile that name the id.
Naming(list, id) == {i \in DOMAIN list : list[i].item = id}

\* The last of a non-empty set of positions.
Last(positions) == CHOOSE i \in positions : \A j \in positions : j <= i

\* The selector the Profile selects an instance of the Value with: that of
\* the last refine-value that names the Value, NULL when none does.
SelectedSelector(id) ==
    IF Naming(op.refine_values, id) = {} THEN NULL
    ELSE op.refine_values[Last(Naming(op.refine_values, id))].selector

\* The value of the instance of the Value that carries the selector.
InstanceValue(id, selector) ==
    LET insts == ValueInstances(id)
    IN insts[CHOOSE i \in DOMAIN insts : insts[i].selector = selector].value

\* C20: for each check export the binding's resolved value is the value of
\* the instance of the Value selected by the selector of the last
\* refine-value of the Profile that names the Value (the NULL selector when
\* none does), and the binding's setvalue override is the literal of the last
\* setvalue of the Profile that names the Value (absent when none does); the
\* override does not replace the resolved value.
C20_ValueBindings ==
    (op.bound /\ ~op.value.null) =>
        /\ Len(op.value.list) = Len(op.exports)
        /\ \A i \in DOMAIN op.exports :
              LET id == op.exports[i].value
                  binding == op.value.list[i]
              IN /\ binding.name = op.exports[i].name
                 /\ binding.value = InstanceValue(id, SelectedSelector(id))
                 /\ binding.setvalue =
                        IF Naming(op.setvalues, id) = {} THEN NULL
                        ELSE op.setvalues[Last(Naming(op.setvalues, id))].value

\* Two refine-values name Value v1, the last with selector s1, and two
\* setvalues name it, the last with literal 8: the binding resolves to the
\* value of instance s1 and carries 8 as its override.
C20_Witness ==
    /\ op.bound /\ ~op.value.null
    /\ Len(op.exports) = 1
    /\ op.refine_values = <<[item |-> "v1", selector |-> NULL, oper |-> OPERATOR_NOT_GIVEN],
                            [item |-> "v1", selector |-> "s1", oper |-> "less than"]>>
    /\ op.setvalues = <<[item |-> "v1", value |-> "7"], [item |-> "v1", value |-> "8"]>>
    /\ op.value.list[1].value = "2"
    /\ op.value.list[1].setvalue = "8"

\* C21 as claimed: the operator of a binding is the operator of the last
\* refine-value that names the Value if that refine-value carries one, and
\* the Value's own operator otherwise: when no refine-value names the Value
\* or the one that does carries no operator.
C21_BindingOperator ==
    (op.bound /\ ~op.value.null) =>
        \A i \in DOMAIN op.exports :
            LET id == op.exports[i].value
                named == Naming(op.refine_values, id)
                given == named # {} /\
                         op.refine_values[Last(named)].oper # OPERATOR_NOT_GIVEN
            IN op.value.list[i].operator =
                   IF given THEN op.refine_values[Last(named)].oper ELSE ValueOper(id)

(***************************************************************************)
(* Exports that cannot be bound.                                           *)
(***************************************************************************)
\* The selector the policy's Profile selects an instance of the Value with.
ProfileSelector(id) ==
    LET named == Naming(ProfileRefineValues, id)
    IN IF named = {} THEN NULL ELSE ProfileRefineValues[Last(named)].selector

\* An export names a Value absent from the Benchmark, or the selector
\* resolved for its Value matches no instance of the Value.
Unbindable(exports) ==
    \E i \in DOMAIN exports :
        \/ exports[i].value \notin Items
        \/ \A k \in DOMAIN ValueInstances(exports[i].value) :
               ValueInstances(exports[i].value)[k].selector #
                   ProfileSelector(exports[i].value)

\* C22: when an export of the Rule's chosen simple check names a Value absent
\* from the Benchmark, or the resolved selector matches no instance of the
\* Value, no engine is called or queried for the Rule, one RuleResult with
\* result Unknown and a message is emitted, and the evaluation goes on to the
\* next select.
C22_UnboundExport ==
    /\ (Len(RuleResults) = 1 /\ RuleResults[1].message = "Value bindings not found."
           /\ pc # "output") =>
           /\ pc = "select"
           /\ ~retval.returned
           /\ selects[sel_it - 1].item = RuleResults[1].idref
           /\ Len(trace) = 1
    /\ (pc # "simple" /\ cur.check # NoCheck /\ ~cur.check[1].complex
        /\ Unbindable(cur.check[1].exports)) =>
        /\ pc = "output"
        /\ trace = <<[ev |-> "result", rule |-> cur.rule, rr |-> 1,
                      ret |-> XCCDF_RESULT_UNKNOWN]>>
        /\ Len(RuleResults) = 1
        /\ RuleResults[1].idref = cur.rule
        /\ RuleResults[1].result = XCCDF_RESULT_UNKNOWN
        /\ RuleResults[1].message = "Value bindings not found."
        /\ \A rets \in [1 .. Len(callbacks[OUTPUT_URI]) -> {0}] :
               /\ evaluate_after_item(xccdf_policy_report_cb(OUTPUT_URI, rets).retval)
                      = "continue"
               /\ ENABLED OutputHook

\* A check that exports a Value the Benchmark does not have was reported
\* Unknown without any engine call.
C22_Witness ==
    /\ pc = "output"
    /\ cur.check # NoCheck
    /\ \E i \in DOMAIN cur.check[1].exports : cur.check[1].exports[i].value = "vx"
    /\ Len(RuleResults) = 1
    /\ RuleResults[1].result = XCCDF_RESULT_UNKNOWN

(***************************************************************************)
(* Applicability of an item against its description.                       *)
(***************************************************************************)
\* The CPE sources of the model, each with its kind.
CpeSources ==
    (IF cpe.emb_lang THEN {<<"lang", "emb_lang">>} ELSE {})
    \cup {<<"lang", cpe.ext_langs[i]>> : i \in DOMAIN cpe.ext_langs}
    \cup (IF cpe.emb_dict THEN {<<"dict", "emb_dict">>} ELSE {})
    \cup {<<"dict", cpe.ext_dicts[i]>> : i \in DOMAIN cpe.ext_dicts}

\* A platform reference resolves to true in a source.
Resolves(source, platform) ==
    IF source[1] = "lang"
    THEN <<source[2], PlatformShifted(platform)>> \in cpe.match
    ELSE cpe_name_check(platform) /\ <<source[2], platform>> \in cpe.match

\* The item has no platform reference, or one that resolves in some source.
PlatformsAdmit(item) ==
    \/ xccdf_item_get_platforms(item) = <<>>
    \/ \E i \in DOMAIN xccdf_item_get_platforms(item), source \in CpeSources :
           Resolves(source, xccdf_item_get_platforms(item)[i])

\* The item, its parent, the parent's parent, ... up to the Benchmark.
RECURSIVE Chain(_)
Chain(item) ==
    IF xccdf_item_get_parent(item) = NULL THEN {item}
    ELSE {item} \cup Chain(xccdf_item_get_parent(item))

\* C23 as stated: an item is applicable iff its parent is applicable, up to the
\* Benchmark root which is always applicable whatever platform references it
\* carries, and the item has no platform reference or one that resolves to
\* true in at least one source.
C23_RootAlwaysApplicable ==
    op.called =>
        op.applicable = (\A a \in Chain(op.item) \ {BENCHMARK} : PlatformsAdmit(a))

\* C23 amended: an item is applicable iff its parent is applicable, up to and
\* including the Benchmark root, and the item has no platform reference or
\* one that resolves to true in at least one source; the Benchmark root is
\* held to the same test of its own platform references.
C23_ApplicableUpToRoot ==
    op.called =>
        op.applicable = (\A a \in Chain(op.item) : PlatformsAdmit(a))

\* A Rule under a Group with a platform reference that resolves only in an
\* external source was found applicable, and a Rule whose own platform
\* resolves was found not applicable under a Benchmark whose platform
\* reference resolves nowhere.
C23_Witness ==
    \/ /\ op.called /\ op.applicable
       /\ op.item = "r2"
       /\ ~cpe.emb_lang
       /\ cpe.bm_platforms # <<>>
    \/ /\ op.called /\ ~op.applicable
       /\ op.item = "r3"
       /\ PlatformsAdmit("r3")
       /\ ~PlatformsAdmit(BENCHMARK)

(***************************************************************************)
(* The cache of CPE check sessions.                                        *)
(***************************************************************************)
\* Positions of the calls of the content loader in the trace.
ImportEvents == {i \in DOMAIN trace : trace[i].kind = "import"}

\* Positions of the definition evaluations in the trace.
CpeEvalEvents == {i \in DOMAIN trace : trace[i].kind = "cpe_eval"}

\* The loader is not called again for a prefixed href it has loaded.
LoaderOncePerHref ==
    \A i \in ImportEvents, j \in ImportEvents :
        (i < j /\ trace[i].href = trace[j].href) => ~trace[i].ok

\* Every evaluation uses the session made at the one successful load of its
\* prefixed href: it follows such a load, and evaluations of one href share
\* their session while those of different hrefs do not.
SessionReused ==
    /\ \A j \in CpeEvalEvents :
           \E i \in ImportEvents :
               i < j /\ trace[i].ok /\ trace[i].href = trace[j].href
    /\ \A i \in CpeEvalEvents, j \in CpeEvalEvents :
           (trace[i].href = trace[j].href) <=> (trace[i].session = trace[j].session)

\* A step keeps every entry of the cache as it is.
CacheEntriesKept ==
    \A key \in DOMAIN op.sessions :
        key \in DOMAIN op'.sessions /\ op'.sessions[key] = op.sessions[key]

\* C24: over any sequence of applicability checks by any Policies of one
\* model, the content loader is called at most once for each prefixed href
\* whose content loads, every later reference to the href reuses the cached
\* session, and no cache entry is removed or replaced.
C24_SessionCache ==
    /\ [](LoaderOncePerHref /\ SessionReused)
    /\ [][CacheEntriesKept]_vars

\* A prefixed href was loaded for one Policy after a failed load, and a later
\* call for another Policy, reaching the same prefixed href from another
\* origin, reused the session.
C24_Witness ==
    /\ Len(trace) = 4
    /\ trace[1].kind = "import" /\ ~trace[1].ok
    /\ trace[2].kind = "import" /\ trace[2].ok /\ trace[2].href = trace[1].href
    /\ trace[3].kind = "cpe_eval" /\ trace[4].kind = "cpe_eval"
    /\ trace[4].session = trace[3].session
    /\ trace[4].policy # trace[3].policy
    /\ trace[2].href = <<"d1", "a.xml">>
    /\ DOMAIN op.sessions = {<<"d1", "a.xml">>}

(***************************************************************************)
(* The default score against its description.                              *)
(***************************************************************************)
\* What a division by zero gives in float arithmetic, and what every
\* operation gives for it.
NotANumber == [m |-> 0, e |-> 1]

RefMul(x, y) == IF NotANumber \in {x, y} THEN NotANumber ELSE FloatMul(x, y)

RefAdd(x, y) == IF NotANumber \in {x, y} THEN NotANumber ELSE FloatAdd(x, y)

\* x / y; when guarded, a sum of weights that is zero divides nothing and the
\* quotient is the dividend.
RefQuot(x, y, guarded) ==
    IF NotANumber \in {x, y} THEN NotANumber
    ELSE IF y.m # 0 THEN FloatDiv(x, y)
    ELSE IF guarded THEN x
    ELSE NotANumber

RECURSIVE RefSum(_, _)
\* The sum of the first n floats of a list, added in the order of the list.
RefSum(list, n) == IF n = 0 THEN FloatZero ELSE RefAdd(RefSum(list, n - 1), list[n])

RECURSIVE RefCounted(_, _)
\* A Rule is counted when its result is none of the ignored kinds; a Group or
\* the Benchmark has count 0 when none of its children is counted.
RefCounted(tree, item) ==
    IF item \in Rules
    THEN tree.result[item] \notin IgnoredKinds \cup {NoRuleResult}
    ELSE IF item \in Groups \cup {BENCHMARK}
    THEN \E i \in DOMAIN tree.content[item] : RefCounted(tree, tree.content[item][i])
    ELSE FALSE

\* The counted children of a Group or of the Benchmark, in order.
CountedChildren(tree, item) ==
    LET Counts(child) == RefCounted(tree, child)
    IN  SelectSeq(tree.content[item], Counts)

RECURSIVE RefDefaultScore(_, _, _)
\* The reference recursion of the default score; with no counted child there
\* is nothing to score and the score is zero.
RefDefaultScore(tree, item, guarded) ==
    IF item \in Rules
    THEN IF tree.result[item] \in {XCCDF_RESULT_PASS, XCCDF_RESULT_FIXED}
         THEN Float(100) ELSE FloatZero
    ELSE LET children == CountedChildren(tree, item)
             weight_scores ==
                 [i \in DOMAIN children |->
                     RefMul(RefDefaultScore(tree, children[i], guarded),
                            tree.weight[children[i]])]
             weights == [i \in DOMAIN children |-> tree.weight[children[i]]]
         IN  IF children = <<>> THEN FloatZero
             ELSE RefQuot(RefSum(weight_scores, Len(children)),
                          RefSum(weights, Len(children)), guarded)

\* C25 as stated: for every tree with non-negative weights and every
\* assignment of rule results the default score equals the reference
\* recursion, in which a Group or the Benchmark scores the sum of weight_score
\* over its counted children divided by the sum of those children's weights.
C25_DefaultScoreDivided ==
    (op.called /\ op.scsystem = SCORING_DEFAULT) =>
        op.score.score = RefDefaultScore(op.tree, BENCHMARK, FALSE)

\* C25 amended: the default score equals the reference recursion in which a
\* Group or the Benchmark scores the sum of weight_score over its counted
\* children, divided by the sum of those children's weights when that sum is
\* not zero and left undivided (it is then zero) when it is zero.
C25_DefaultScoreGuarded ==
    (op.called /\ op.scsystem = SCORING_DEFAULT) =>
        op.score.score = RefDefaultScore(op.tree, BENCHMARK, TRUE)

\* A default score that is neither 0 nor 100 came of a tree in which every
\* Rule is counted and the outer Group weighs.
C25_Witness ==
    /\ op.called /\ op.scsystem = SCORING_DEFAULT
    /\ op.tree.content = TreeContent
    /\ op.score.score \notin {FloatZero, Float(100)}
    /\ RefCounted(op.tree, "r1") /\ RefCounted(op.tree, "r2") /\ RefCounted(op.tree, "r3")
    /\ op.tree.weight["g1"] # FloatZero
    /\ op.tree.weight["r1"] = Weight_0_09

(***************************************************************************)
(* Ignored rules.                                                          *)
(***************************************************************************)
\* NotSelected, NotApplicable, Informational and NotChecked.
FourIgnoredKinds ==
    {XCCDF_RESULT_NOT_SELECTED, XCCDF_RESULT_NOT_APPLICABLE,
     XCCDF_RESULT_INFORMATIONAL, XCCDF_RESULT_NOT_CHECKED}

\* The tree with the result of a Rule replaced.
WithResult(tree, rule, kind) == [tree EXCEPT !.result[rule] = kind]

\* The tree with a Rule removed from the content of the item that holds it.
WithoutRule(tree, rule) ==
    LET Other(child) == child # rule
    IN  [tree EXCEPT !.content = [item \in DOMAIN tree.content |->
                                     SelectSeq(tree.content[item], Other)]]

\* C26: in all four scoring systems a Rule whose result is NotSelected,
\* NotApplicable, Informational or NotChecked contributes nothing: replacing
\* its result by another of these four kinds, or removing the Rule, leaves
\* the score unchanged; and a Benchmark in which every Rule is ignored has
\* default count 0 and default score 0.
C26_IgnoredRules ==
    (op.called /\ op.scsystem \in ScoringSystems) =>
        /\ \A rule \in Rules :
               op.tree.result[rule] \in FourIgnoredKinds =>
                   /\ \A kind \in FourIgnoredKinds :
                          xccdf_policy_get_score(WithResult(op.tree, rule, kind),
                                                 op.scsystem) = op.score
                   /\ xccdf_policy_get_score(WithoutRule(op.tree, rule), op.scsystem)
                          = op.score
        /\ (\A rule \in Rules : op.tree.result[rule] \in FourIgnoredKinds) =>
               /\ xccdf_item_get_default_score(op.tree, BENCHMARK).count = 0
               /\ xccdf_item_get_default_score(op.tree, BENCHMARK).score = FloatZero

\* A flat score was taken of a tree with an Informational Rule that weighs
\* beside a Rule that passes, and a default score of a tree whose Rules are
\* all ignored, with each of the four kinds.
C26_Witness ==
    /\ op.called
    /\ \/ /\ op.scsystem = SCORING_FLAT
          /\ op.tree.result["r1"] = XCCDF_RESULT_INFORMATIONAL
          /\ op.tree.weight["r1"] = Float(1)
          /\ op.tree.result["r2"] = XCCDF_RESULT_PASS
          /\ op.score.score # FloatZero
       \/ /\ op.scsystem = SCORING_DEFAULT
          /\ op.tree.result["r1"] = XCCDF_RESULT_NOT_SELECTED
          /\ op.tree.result["r2"] = XCCDF_RESULT_NOT_APPLICABLE
          /\ op.tree.result["r3"] = XCCDF_RESULT_NOT_CHECKED

(***************************************************************************)
(* The scores of a Benchmark whose only Rule passes, and the bounds of the *)
(* scores.                                                                 *)
(***************************************************************************)
\* The tree is a Benchmark whose only Rule is r3, and r3 has passed.
SoleRulePasses ==
    /\ op.tree.content = SoleRuleContent
    /\ op.tree.result["r3"] = XCCDF_RESULT_PASS

\* C27: for a Benchmark whose only Rule is selected, applicable and has one
\* simple check that passes, every scoring system yields its maximum for
\* every non-negative weight of the Rule: default = 100, flat score = flat
\* maximum = the weight, flat-unweighted = 1 of 1, absolute = 1.
C27_SoleRuleMaximum ==
    (op.called /\ SoleRulePasses) =>
        /\ op.scsystem = SCORING_DEFAULT => op.score.score = Float(100)
        /\ op.scsystem = SCORING_FLAT =>
               /\ op.score.score = op.score.maximum
               /\ op.score.maximum = op.tree.weight["r3"]
        /\ op.scsystem = SCORING_FLAT_UNWEIGHTED =>
               /\ op.score.score = Float(1)
               /\ op.score.maximum = Float(1)
        /\ op.scsystem = SCORING_ABSOLUTE => op.score.score = Float(1)

\* The number of Rules of the tree that are counted.
CountedRules(tree) ==
    Cardinality({rule \in Rules :
                    /\ \E item \in DOMAIN tree.content, i \in 1 .. 3 :
                           i \in DOMAIN tree.content[item] /\ tree.content[item][i] = rule
                    /\ RefCounted(tree, rule)})

\* C28: for every tree with non-negative weights and every TestResult the
\* flat-unweighted score is at most the flat-unweighted maximum, which is
\* the number of counted Rules; the default score lies in [0, 100]; and the
\* absolute score is 0 or 1, and is 1 exactly when the flat score equals the
\* flat maximum.
C28_ScoreBounds ==
    op.called =>
        /\ op.scsystem = SCORING_FLAT_UNWEIGHTED =>
               /\ FloatLe(op.score.score, op.score.maximum)
               /\ op.score.maximum = Float(CountedRules(op.tree))
        /\ op.scsystem = SCORING_DEFAULT =>
               /\ FloatLe(FloatZero, op.score.score)
               /\ FloatLe(op.score.score, Float(100))
        /\ op.scsystem = SCORING_ABSOLUTE =>
               /\ op.score.score \in {FloatZero, Float(1)}
               /\ op.score.score = Float(1) <=>
                      xccdf_policy_get_score(op.tree, SCORING_FLAT).score
                          = xccdf_policy_get_score(op.tree, SCORING_FLAT).maximum

(***************************************************************************)
(* A scoring system that is not supported.                                 *)
(***************************************************************************)
\* The URIs of the four supported scoring systems.
SupportedSystems ==
    {"urn:xccdf:scoring:default", "urn:xccdf:scoring:flat",
     "urn:xccdf:scoring:flat-unweighted", "urn:xccdf:scoring:absolute"}

\* A step is a call of xccdf_policy_get_score with another URI.
UnsupportedCall ==
    ~op.called /\ op'.called /\ op'.scsystem \notin SupportedSystems

\* C29: xccdf_policy_get_score called with a URI other than the four
\* supported ones returns no Score and leaves the TestResult and the Policy
\* as they were.
C29_UnsupportedSystem ==
    [][UnsupportedCall =>
          /\ op'.score = NullScore
          /\ op'.tree = op.tree
          /\ UNCHANGED <<bm_selected, profile_selects, selects, ht_selects, sel_it,
                         result, policy_results, callbacks, cpe>>]_vars

\* The call with another URI was made for a TestResult in which a Rule that
\* weighs has passed.
C29_Witness ==
    /\ op.called
    /\ op.scsystem = "urn:xccdf:scoring:other"
    /\ op.score.null
    /\ op.tree.result["r3"] = XCCDF_RESULT_PASS
    /\ op.tree.weight["r3"] = Float(1)

(***************************************************************************)
(* The id of the TestResult.                                               *)
(***************************************************************************)
\* Version v is below version w: at the first part in which they differ v
\* has the smaller number, or v ends there.
VersionBelow(v, w) ==
    \E k \in 1 .. Len(w) :
        /\ \A j \in 1 .. (k - 1) : j <= Len(v) /\ v[j] = w[j]
        /\ (k > Len(v) \/ (k <= Len(v) /\ v[k] < w[k]))

\* C30: the id of the TestResult is "xccdf_org.open-scap_testresult_"
\* followed by the profile id, or by "default-profile" when the Policy has
\* no profile id, if the schema version of the Benchmark is at least 1.2, and
\* "OSCAP-Test-" followed by the same suffix if the version is below 1.2.
C30_TestResultId ==
    op.rid.set =>
        LET suffix == IF op.profile.null \/ op.profile.id = NULL
                      THEN "default-profile" ELSE op.profile.id
        IN  op.rid.id = (IF VersionBelow(op.doc_version, <<1, 2>>)
                         THEN "OSCAP-Test-" \o suffix
                         ELSE "xccdf_org.open-scap_testresult_" \o suffix)

(***************************************************************************)
(* Tailoring and the Benchmark.                                            *)
(***************************************************************************)
\* The last call was xccdf_policy_tailor_item for an item of the given type.
Tailored(type) ==
    /\ op.call.fn = "xccdf_policy_tailor_item"
    /\ op.before[op.call.item].type = type

\* C31: xccdf_policy_tailor_item never changes an item of the Benchmark:
\* every override, the operator of a refine-value included, is written to the
\* clone only, so the items of the Benchmark are after the call what they
\* were before it.
C31_BenchmarkUntouched ==
    op.call.fn = "xccdf_policy_tailor_item" => op.items = op.before

\* C32: the Rule or Group xccdf_policy_tailor_item returns has the weight,
\* severity and role of the refine-rule where the refine-rule defines them
\* and those of the original everywhere else.
C32_OnlyDefinedOverridden ==
    ((Tailored("XCCDF_RULE") \/ Tailored("XCCDF_GROUP")) /\ op.call.ret = "new_item") =>
        LET original == op.before[op.call.item]
            r_rule == refine_rules_by_rule(op.refine_rules, op.call.item)[1]
            new_item == op.call.new_item[1]
        IN /\ new_item.weight = IF r_rule.weight_defined THEN r_rule.weight
                                ELSE original.weight
           /\ Tailored("XCCDF_RULE") =>
                /\ new_item.role = IF r_rule.role # ROLE_NOT_GIVEN THEN r_rule.role
                                   ELSE original.role
                /\ new_item.severity = IF r_rule.severity # SEVERITY_NOT_GIVEN
                                       THEN r_rule.severity ELSE original.severity

\* C33: the Value xccdf_policy_tailor_item returns holds one instance only:
\* with no setvalue for the Value, the instance of the refine-value's
\* selector; with a setvalue whose literal is the value of no instance, the
\* default instance, which carries the literal.
C33_SelectedInstanceKept ==
    (Tailored("XCCDF_VALUE") /\ op.call.ret = "new_item") =>
        LET original == op.before[op.call.item]
            s_value == FirstMatch(op.setvalues, op.call.item)
            r_value == FirstMatch(op.refine_values, op.call.item)
            instances == op.call.new_item[1].instances
        IN /\ Len(instances) = 1
           /\ s_value = <<>> =>
                /\ instances[1].selector = r_value[1].selector
                /\ instances[1] \in {original.instances[i] : i \in DOMAIN original.instances}
           /\ (/\ s_value # <<>>
               /\ \A i \in DOMAIN original.instances :
                     original.instances[i].value # s_value[1].value) =>
                /\ instances[1].selector = NULL
                /\ s_value[1].value \in {instances[1].value, instances[1].defval}

\* C37: xccdf_policy_resolve returns false exactly when a refine-rule names
\* an item the Benchmark does not have; when it returns true, a Group named
\* by a refine-rule that defines a weight has that weight.
C37_ResolveApplies ==
    op.call.fn = "xccdf_policy_resolve" =>
        /\ op.call.ret = "false" <=>
              \E i \in DOMAIN op.refine_rules :
                  op.refine_rules[i].item \notin DOMAIN op.items
        /\ op.call.ret = "true" =>
              \A i \in DOMAIN op.refine_rules :
                  LET r_rule == op.refine_rules[i]
                  IN (/\ op.items[r_rule.item].type = "XCCDF_GROUP"
                      /\ r_rule.weight_defined
                      /\ \A j \in DOMAIN op.refine_rules :
                            j > i => op.refine_rules[j].item # r_rule.item) =>
                         op.items[r_rule.item].weight = r_rule.weight

(***************************************************************************)
(* Platform references and the two kinds of CPE source.                    *)
(***************************************************************************)
\* The platform references that start with '#', and a reference without it.
HashPlatforms == {"#p1"}
WithoutHash(platform) == CASE platform = "#p1" -> "p1" [] OTHER -> platform

\* The language models and the dictionaries the model holds.
LangModels == (IF cpe.emb_lang THEN {"emb_lang"} ELSE {}) \cup
              {cpe.ext_langs[i] : i \in DOMAIN cpe.ext_langs}
Dicts == (IF cpe.emb_dict THEN {"emb_dict"} ELSE {}) \cup
         {cpe.ext_dicts[i] : i \in DOMAIN cpe.ext_dicts}

\* The call was made for the Benchmark, the item without parent, which
\* carries platform references.
RootWithPlatforms == op.called /\ op.item = BENCHMARK /\ cpe.bm_platforms # <<>>

\* C34 as stated: a platform reference without the '#' prefix never makes
\* an item applicable through a platform of a language model.
C34_LangModelHashOnly ==
    (RootWithPlatforms /\ cpe.bm_platforms = <<"p1">>) => ~op.applicable

\* C34: a platform reference is matched against the language models with
\* or without a leading '#', which is skipped, and against the dictionaries
\* only if it does not start with '#': the item is applicable iff one of
\* its references is matched that way.
C34_PlatformSources ==
    RootWithPlatforms =>
        (op.applicable <=>
            \E i \in DOMAIN cpe.bm_platforms :
                LET platform == cpe.bm_platforms[i]
                IN \/ \E l \in LangModels : <<l, WithoutHash(platform)>> \in cpe.match
                   \/ /\ platform \notin HashPlatforms
                      /\ \E d \in Dicts : <<d, platform>> \in cpe.match)

\* A reference without '#' made the Benchmark applicable through a language
\* model, and a reference with '#' that a dictionary would match did not.
C34_Witness ==
    \/ /\ RootWithPlatforms /\ cpe.bm_platforms = <<"p1">> /\ op.applicable
       /\ Dicts = {}
    \/ /\ RootWithPlatforms /\ cpe.bm_platforms = <<"#p1">> /\ ~op.applicable
       /\ "emb_dict" \in Dicts /\ <<"emb_dict", "#p1">> \in cpe.match

(***************************************************************************)
(* A CPE check whose content does not load.                                *)
(***************************************************************************)
\* The step is a call of the callback in which the content did not load.
ImportFails ==
    /\ Len(trace') = Len(trace) + 1
    /\ trace'[Len(trace')].kind = "import"
    /\ ~trace'[Len(trace')].ok

RECURSIVE CheckWalk(_)
CheckWalk(check) ==
    LET RECURSIVE Concat(_)
        Concat(i) == IF i > Len(check.children) THEN <<>>
                     ELSE CheckWalk(check.children[i]) \o Concat(i + 1)
    IN IF check.complex THEN Concat(1)
       ELSE [i \in DOMAIN check.content_refs |->
                <<check.system, check.content_refs[i].href>>]

RECURSIVE ItemWalk(_)
ItemWalk(item) ==
    LET RECURSIVE Concat(_)
        Concat(i) ==
            IF item \in Rules
            THEN IF i > Len(op.checks[item]) THEN <<>>
                 ELSE CheckWalk(op.checks[item][i]) \o Concat(i + 1)
            ELSE IF i > Len(FilesContent[item]) THEN <<>>
                 ELSE ItemWalk(FilesContent[item][i]) \o Concat(i + 1)
    IN Concat(1)

\* Where a pair occurs first in a walk.
FirstAt(walk, pair) ==
    CHOOSE i \in DOMAIN walk : walk[i] = pair /\ \A j \in 1 .. (i - 1) : walk[j] # pair

C38_ResultInRange ==
    \A i \in DOMAIN result.rule_results :
        result.rule_results[i].result \in XCCDF_RESULT_PASS .. XCCDF_RESULT_FIXED

(***************************************************************************)
(* The order of the callbacks of one Rule.                                 *)
(***************************************************************************)
\* The start hook firings before event k.
StartsBefore(k) == {j \in 1 .. (k - 1) : trace[j].ev = START_URI}

\* The last start hook firing before event k was for the Rule.
StartedFor(rule, k) ==
    /\ StartsBefore(k) # {}
    /\ \E j \in StartsBefore(k) :
          /\ \A i \in StartsBefore(k) : i <= j
          /\ trace[j].rule = rule

\* The Rule is selected and applicable as the Policy and the CPE sources
\* have it.
RuleSelected(rule) == _xccdf_policy_is_rule_selected(rule)
RuleApplicable(rule) == xccdf_policy_model_item_is_applicable(rule)

\* C39: with a start hook registered, whatever is called for a Rule (the
\* applicability test with its CPE sources and content loader, an engine's
\* query or evaluation, an output hook) comes after a firing of the start
\* hook for that Rule, with no start hook of another Rule in between; for a
\* Rule that is not selected neither the applicability test nor an engine is
\* called; for a selected Rule that is not applicable no engine is called.
C39_CallbackOrder ==
    /\ Len(callbacks[START_URI]) > 0 =>
          /\ \A k \in DOMAIN trace :
                trace[k].ev # START_URI => StartedFor(trace[k].rule, k)
          /\ cur.asked_applicable => StartedFor(cur.rule, Len(trace) + 1)
    /\ cur.asked_applicable => RuleSelected(cur.rule)
    /\ \A k \in DOMAIN trace :
          trace[k].ev \in {"eval", "query"} =>
              RuleSelected(trace[k].rule) /\ RuleApplicable(trace[k].rule)

\* In an evaluation with a start hook an engine was called for one Rule,
\* another was reported not applicable, and a third has just been reported
\* not selected without its applicability being tested.
C39_Witness ==
    /\ pc = "output"
    /\ Len(callbacks[START_URI]) > 0
    /\ ~cur.asked_applicable
    /\ trace[Len(trace)].ev = "result"
    /\ trace[Len(trace)].ret = XCCDF_RESULT_NOT_SELECTED
    /\ \E k \in DOMAIN trace :
          trace[k].ev = "result" /\ trace[k].ret = XCCDF_RESULT_NOT_APPLICABLE
    /\ \E k \in DOMAIN trace : trace[k].ev = "eval"

(***************************************************************************)
(* The array that holds the TestResult id.                                 *)
(***************************************************************************)
\* C40: the array xccdf_policy_evaluate builds the TestResult id in is at
\* least as long as the id written into it with its terminating zero, for
\* both forms of the id and every profile id.
C40_BufferHoldsId ==
    pc \in {"id_set", "aborted"} => op.rid.size >= op.rid.written

====
